---- MODULE Spec2Model ----
(***************************************************************************)
(* Chimera backend (src/unnamed/part_003): the note store with its plan    *)
(* quotas, modelled as a state machine over the two persisted collections  *)
(* (users, notes) and the requests in flight.                              *)
(*                                                                         *)
(* Representation of JavaScript values:                                    *)
(*   - a request body is a function whose DOMAIN is the set of fields the  *)
(*     client sent;                                                        *)
(*   - title, folder, localId, updatedAt are strings; the stored localId   *)
(*     null is written "" (normalizeNoteDoc maps every falsy localId to    *)
(*     null, so no stored localId is the empty string);                    *)
(*   - content is a text given by its length in UTF-16 code units (what    *)
(*     String.length counts) and the length of its UTF-8 encoding (what    *)
(*     Buffer.byteLength counts);                                          *)
(*   - an ObjectId is a positive integer; a request id that is no valid    *)
(*     ObjectId string is a negative integer;                              *)
(*   - a timestamp is a number of milliseconds since the epoch, 1..9.      *)
(*                                                                         *)
(* The AI endpoint (/ai/chat, callGemini) is modelled beside it, over the  *)
(* process-wide cache of discovered models, the clock and the chat         *)
(* requests in flight:                                                     *)
(*   - a model name is the sequence of its hyphen-separated parts, with    *)
(*     the part "models/" in front when it carries that prefix; the names  *)
(*     of the model are lower case, and String.includes is asked only for  *)
(*     whole parts;                                                        *)
(*   - a text is the sequence of its pieces, each piece a run of           *)
(*     characters of one kind: a provider name in some letter case, other  *)
(*     ASCII letters, digits and underscores, letters outside ASCII, or    *)
(*     characters that are none of these (blanks, newlines, hyphens).      *)
(*                                                                         *)
(* The store connection (connectMongo, connectMongoWithRetry, ensureDb) is *)
(* modelled from the start of the process: db, mongoLastError and          *)
(* reconnectTimer, the calls of connectMongo in flight, the indexes of the *)
(* notes collection, and the store being reachable or not. Spec, SpecConc, *)
(* SpecRace, SpecList, SpecQuota, SpecPlan, SpecAi and SpecAiLive start    *)
(* from the connected process; SpecConn and SpecConnLive from start().     *)
(*                                                                         *)
(* A handler is cut at its awaits: a step runs it from one await to the    *)
(* next. The upgrade takes two steps, the store applying its updateOne and *)
(* the handler answering.                                                  *)
(***************************************************************************)
EXTENDS Integers, Sequences, FiniteSets, TLC

\* ------------------------------------------------------------------ bounds
MaxIds == 3          \* ObjectIds the store hands out in one run
MaxInFlight == 2     \* requests that may overlap in SpecConc
MaxTicks == 4        \* steps the clock of the AI endpoint makes
MaxOverlap == 2      \* runs of the reconnect callback that may overlap
MaxRetries == 2      \* runs of the reconnect callback that are counted
MaxHistory == 13     \* entries of the longest history a chat request sends

\* ------------------------------------------------- configuration (env)
FREE_MAX_NOTES == 2
FREE_MAX_CHARS_PER_NOTE == 500
FREE_MAX_STORAGE_BYTES == 1024

Owners == {"A", "B"}
Callers == 0..MaxOverlap     \* 0: start(), the others: the interval callback
Slots == 1..MaxInFlight
ObjectIds == 1..MaxIds

VARIABLES
  db,       \* the connection handle is established (let db)
  users,    \* users collection: userId -> stored plan ("" when no record)
  notes,    \* notes collection: a set of documents
  nextId,   \* the next ObjectId insertOne generates
  reqs,     \* slot -> the request being handled there, with its locals
  cachedGeminiModels,     \* let cachedGeminiModels
  geminiModelsCachedAt,   \* let geminiModelsCachedAt
  dateNow,                \* what Date.now() returns
  populatedAt,            \* dateNow when cachedGeminiModels was last assigned
  chats,    \* slot -> the /ai/chat request being handled there
  mongoLastError,   \* let mongoLastError, "" for null
  reconnectTimer,   \* let reconnectTimer is set
  listening,        \* app.listen has been called
  connecting,       \* caller -> where its call of connectMongo is suspended
  assigned,         \* how often `db = mongo.db(DB_NAME)` has run
  clients,          \* MongoClients whose connect() has resolved
  retries,          \* runs of the reconnect callback, up to MaxRetries
  reachable,        \* the store answers
  indexes           \* the indexes of the notes collection that exist

storeVars == <<db, users, notes, nextId, reqs>>
aiVars ==
  <<cachedGeminiModels, geminiModelsCachedAt, dateNow, populatedAt, chats>>
connVars ==
  <<mongoLastError, reconnectTimer, listening, connecting, assigned, clients,
    retries, reachable, indexes>>
vars == <<storeVars, aiVars, connVars>>

\* ------------------------------------------------------------ JS values
Has(raw, f) == f \in DOMAIN raw

\* raw.f || d for a string field
StrOr(raw, f, d) == IF Has(raw, f) /\ raw[f] # "" THEN raw[f] ELSE d

\* raw.f is truthy, for a number field
NumTruthy(raw, f) == Has(raw, f) /\ raw[f] # 0

Text(n, b) == [chars |-> n, utf8 |-> b]
EmptyText == Text(0, 0)

Digit(t) == CASE t = 0 -> "0" [] t = 1 -> "1" [] t = 2 -> "2" [] t = 3 -> "3"
              [] t = 4 -> "4" [] t = 5 -> "5" [] t = 6 -> "6" [] t = 7 -> "7"
              [] t = 8 -> "8" [] t = 9 -> "9"

\* new Date(t).toISOString(), t in 0..9
ToISOString(t) == "1970-01-01T00:00:00.00" \o Digit(t) \o "Z"

\* Date.parse(s); NaN is written 0 (both are falsy, and only || reads it)
DateParse(s) ==
  IF \E t \in 0..9 : ToISOString(t) = s
  THEN CHOOSE t \in 0..9 : ToISOString(t) = s
  ELSE 0

\* String(n).length for n >= 0
RECURSIVE Digits(_)
Digits(n) == IF n < 10 THEN 1 ELSE 1 + Digits(n \div 10)

\* Buffer.byteLength(JSON.stringify(links)) for a sequence of plain strings:
\* the brackets, each string in quotes, a comma between neighbours
RECURSIVE QuotedBytes(_)
QuotedBytes(links) ==
  IF links = <<>> THEN 0 ELSE Len(Head(links)) + 2 + QuotedBytes(Tail(links))

LinksBytes(links) ==
  2 + QuotedBytes(links) + (IF Len(links) > 1 THEN Len(links) - 1 ELSE 0)

\* --------------------------------------------------------- NoteRecord
\* normalizeNoteDoc as it would be if the body's fields were spread over the
\* owner: { userId, ...raw }
normalizeNoteDocForgeable(raw, userId, now) ==
  LET updatedAt ==
        StrOr(raw, "updatedAt",
              IF NumTruthy(raw, "lastModified")
              THEN ToISOString(raw.lastModified) ELSE ToISOString(now))
      lastModified ==
        IF NumTruthy(raw, "lastModified") THEN raw.lastModified
        ELSE IF DateParse(updatedAt) # 0 THEN DateParse(updatedAt)
        ELSE now
  IN [ userId       |-> IF Has(raw, "userId") THEN raw.userId ELSE userId,
       title        |-> StrOr(raw, "title", "Untitled Note"),
       content      |-> IF Has(raw, "content") THEN raw.content ELSE EmptyText,
       folder       |-> StrOr(raw, "folder", "General"),
       updatedAt    |-> updatedAt,
       lastModified |-> lastModified,
       localId      |-> StrOr(raw, "localId", ""),
       links        |-> IF Has(raw, "links") THEN raw.links ELSE <<>> ]

normalizeNoteDoc(raw, userId, now) ==
  LET updatedAt ==
        StrOr(raw, "updatedAt",
              IF NumTruthy(raw, "lastModified")
              THEN ToISOString(raw.lastModified) ELSE ToISOString(now))
      lastModified ==
        IF NumTruthy(raw, "lastModified") THEN raw.lastModified
        ELSE IF DateParse(updatedAt) # 0 THEN DateParse(updatedAt)
        ELSE now
  IN [ userId       |-> userId,
       title        |-> StrOr(raw, "title", "Untitled Note"),
       content      |-> IF Has(raw, "content") THEN raw.content ELSE EmptyText,
       folder       |-> StrOr(raw, "folder", "General"),
       updatedAt    |-> updatedAt,
       lastModified |-> lastModified,
       localId      |-> StrOr(raw, "localId", ""),
       links        |-> IF Has(raw, "links") THEN raw.links ELSE <<>> ]

\* ----------------------------------------------------------- PlanPolicy
\* normalizePlan as it would be if it compared against "Pro"
normalizePlanNeverPro(plan) == "free"

normalizePlan(plan) == IF plan = "pro" THEN "pro" ELSE "free"

Unbounded == -1      \* the null of a pro limit

getPlanLimits(plan) ==
  IF normalizePlan(plan) = "pro"
  THEN [maxNotes |-> Unbounded, maxCharsPerNote |-> Unbounded,
        maxStorageBytes |-> Unbounded]
  ELSE [maxNotes |-> FREE_MAX_NOTES,
        maxCharsPerNote |-> FREE_MAX_CHARS_PER_NOTE,
        maxStorageBytes |-> FREE_MAX_STORAGE_BYTES]

countNoteChars(note) == note.content.chars

\* the 90 bytes of {"title":"","content":"","folder":"","updatedAt":"",
\* "lastModified":,"localId":"","links":} around the values
JsonSkeletonBytes == 90

estimateNoteBytes(note) ==
  JsonSkeletonBytes + Len(note.title) + note.content.utf8 + Len(note.folder)
    + Len(note.updatedAt) + Digits(note.lastModified) + Len(note.localId)
    + LinksBytes(note.links)

serializeNoteDoc(doc, now) ==
  [ id           |-> doc._id,
    localId      |-> doc.localId,
    title        |-> IF doc.title # "" THEN doc.title ELSE "Untitled Note",
    content      |-> doc.content,
    folder       |-> IF doc.folder # "" THEN doc.folder ELSE "General",
    updatedAt    |-> IF doc.updatedAt # "" THEN doc.updatedAt
                     ELSE ToISOString(now),
    lastModified |-> IF doc.lastModified # 0 THEN doc.lastModified ELSE now,
    links        |-> doc.links ]

\* ------------------------------------------------- the document store
\* A stored document: the normalized note and the _id insertOne gave it.
WithId(note, id) == [_id |-> id] @@ note

\* The key of the index createIndex({userId: 1, localId: 1}, {unique: true,
\* sparse: true}) builds. Every note document carries both fields (localId
\* is stored as an explicit null), so the sparse index holds every document
\* and a null localId is a key value like any other.
IndexKey(doc) == <<doc.userId, doc.localId>>

\* E11000: another document already holds the key `doc` would get
DuplicateKey(N, doc) ==
  \E d \in N : d._id # doc._id /\ IndexKey(d) = IndexKey(doc)

\* findOne: no document, or one of the matching ones
FindOne(matching) ==
  IF matching = {} THEN {} ELSE {CHOOSE d \in matching : TRUE}

FindById(N, id, userId) ==
  FindOne({d \in N : d._id = id /\ d.userId = userId})

\* the lookup by localId never finding its document
FindByLocalIdNothing(N, userId, localId) == {}

FindByLocalId(N, userId, localId) ==
  FindOne({d \in N : d.userId = userId /\ d.localId = localId})

FindByUser(N, userId) == {d \in N : d.userId = userId}

\* updateOne({_id, userId}, {$set: note}) on a collection without key clash
UpdateOne(N, id, userId, note) ==
  {IF d._id = id /\ d.userId = userId THEN WithId(note, d._id) ELSE d : d \in N}

\* deleteOne({_id}) without the owner in its filter
DeleteOneAnyOwner(N, id, userId) == {d \in N : d._id # id}

DeleteOne(N, id, userId) == {d \in N : ~(d._id = id /\ d.userId = userId)}

\* the order of two strings, on the updatedAt values of the model: the
\* ISO strings of 0..9 differ in their last digit only, any other string
\* of the model starts with a letter and sorts after them
StringRank(s) == IF \E t \in 0..9 : ToISOString(t) = s THEN DateParse(s) ELSE 10

\* sort({lastModified: -1}) alone
SortsBeforeByLastModified(a, b, natural) ==
  \/ a.lastModified > b.lastModified
  \/ /\ a.lastModified = b.lastModified
     /\ natural[a._id] < natural[b._id]

\* sort({lastModified: -1, updatedAt: -1}): a comes before b; documents the
\* two keys do not separate come in the store's natural order
SortsBefore(a, b, natural) ==
  \/ a.lastModified > b.lastModified
  \/ /\ a.lastModified = b.lastModified
     /\ StringRank(a.updatedAt) > StringRank(b.updatedAt)
  \/ /\ a.lastModified = b.lastModified
     /\ StringRank(a.updatedAt) = StringRank(b.updatedAt)
     /\ natural[a._id] < natural[b._id]

RECURSIVE SortedDocs(_, _)
SortedDocs(D, natural) ==
  IF D = {} THEN <<>>
  ELSE LET first == CHOOSE a \in D :
                      \A b \in D \ {a} : SortsBefore(a, b, natural)
       IN <<first>> \o SortedDocs(D \ {first}, natural)

\* ------------------------------------------------------- one request
\* ObjectId.isValid(id) / new ObjectId(id) accepts id
ObjectIdIsValid(id) == id > 0

\* `id` of the body is truthy (0 stands for an empty id string)
IdGiven(body) == Has(body, "id") /\ body.id # 0

NoNote == [ userId |-> "", title |-> "", content |-> EmptyText, folder |-> "",
            updatedAt |-> "", lastModified |-> 0, localId |-> "",
            links |-> <<>> ]

\* A request as it arrives. token: "" when the Authorization header carries
\* no bearer token, "bad" when verifyIdToken rejects it, else the subject it
\* verifies to. now: what Date.now() returns while the request is handled.
NewRequest(op, token, body, now) ==
  [ op |-> op, token |-> token, body |-> body, now |-> now,
    pc |-> "start",
    user |-> "", plan |-> "",        \* req.user
    note |-> NoNote,                 \* the normalized note
    target |-> {},                   \* existingTarget: {} is null
    status |-> 0,                    \* HTTP status of the response, 0: none yet
    code |-> "",                     \* errorCode of a quota denial
    outId |-> 0,                     \* id of the response body
    outList |-> <<>>,                \* body of GET /notes
    thrown |-> "",                   \* error the handler's promise rejected with
    seen |-> [currentCount |-> 0, currentBytes |-> 0],
                                     \* what the quota check has read
    calls |-> 0 ]                    \* operations issued on the notes collection

Idle == [NewRequest("", "", <<>>, 0) EXCEPT !.pc = "idle"]

\* res.status(status).json(...) and return. A response that has been sent
\* stands: a second res.json() of one request changes nothing the client sees.
Respond(q, status) ==
  IF q.status # 0 THEN [q EXCEPT !.pc = "done"]
  ELSE [q EXCEPT !.pc = "done", !.status = status]

\* the denial sent without `return`: the handler runs on to its write
DenyAndGoOn(q, errorCode) ==
  [q EXCEPT !.pc = "write", !.status = 403, !.code = errorCode]

\* return res.status(403).json(makeLimitErrorResponse({... errorCode ...}))
Deny(q, errorCode) ==
  [q EXCEPT !.pc = "done", !.status = 403, !.code = errorCode]

\* an await rejects inside the async handler: nothing catches it, the
\* handler writes no response
Throw(q, error) == [q EXCEPT !.pc = "done", !.thrown = error]

\* What one step of a request leaves behind.
Out(q, U, N, nid) == [q |-> q, users |-> U, notes |-> N, nextId |-> nid]

\* ---- POST /notes
\* lines 525-534 and the choice of the next store call
SaveResolved(q, existing) ==
  LET q1 == [q EXCEPT !.target = existing] IN
  IF IdGiven(q.body) /\ ~ObjectIdIsValid(q.body.id) THEN Respond(q1, 400)
  ELSE IF IdGiven(q.body) /\ existing = {} THEN Respond(q1, 404)
  ELSE IF q.plan # "pro" THEN [q1 EXCEPT !.pc = "findAll"]
  ELSE [q1 EXCEPT !.pc = "write"]

\* the char-limit test with >= for >
CharLimitExceededAtLimit(note, limits) ==
  countNoteChars(note) >= limits.maxCharsPerNote

\* line 493
CharLimitExceeded(note, limits) == countNoteChars(note) > limits.maxCharsPerNote

\* lines 486-517: normalize, the char-limit check, up to the first lookup
SaveBegin(q) ==
  LET note == normalizeNoteDoc(q.body, q.user, q.now)
      plan == normalizePlan(q.plan)
      limits == getPlanLimits(plan)
      q1 == [q EXCEPT !.note = note, !.plan = plan]
  IN IF plan # "pro" /\ CharLimitExceeded(note, limits)
     THEN Deny(q1, "NOTE_CHAR_LIMIT_EXCEEDED")
     ELSE IF IdGiven(q.body) /\ ObjectIdIsValid(q.body.id)
          THEN [q1 EXCEPT !.pc = "findById"]
     ELSE IF note.localId # "" THEN [q1 EXCEPT !.pc = "findByLocalId"]
     ELSE SaveResolved(q1, {})

\* lines 509-517: findOne({_id, userId}) has answered
SaveFindById(q, N) ==
  LET existingById == FindById(N, q.body.id, q.user) IN
  IF existingById = {} /\ q.note.localId # ""
  THEN [q EXCEPT !.pc = "findByLocalId"]
  ELSE SaveResolved(q, existingById)

\* lines 517-525: findOne({userId, localId}) has answered
SaveFindByLocalId(q, N) ==
  SaveResolved(q, FindByLocalId(N, q.user, q.note.localId))

RECURSIVE SumBytes(_)
SumBytes(D) ==
  IF D = {} THEN 0
  ELSE LET d == CHOOSE x \in D : TRUE
       IN estimateNoteBytes(d) + SumBytes(D \ {d})

TargetBytes(existing) ==
  IF existing = {} THEN 0 ELSE SumBytes(existing)

\* lines 551-556: the count and the bytes of the notes read
Usage(found) ==
  [currentCount |-> Cardinality(found), currentBytes |-> SumBytes(found)]

\* the two checks of SaveFindAll in the other order
SaveFindAllStorageFirst(q0, N) ==
  LET limits == getPlanLimits(q0.plan)
      found == FindByUser(N, q0.user)
      q == [q0 EXCEPT !.seen = Usage(found)]
      noteCountAfter ==
        IF q.target # {} THEN Cardinality(found) ELSE Cardinality(found) + 1
      storageBytesAfter ==
        SumBytes(found) - TargetBytes(q.target) + estimateNoteBytes(q.note)
  IN IF storageBytesAfter > limits.maxStorageBytes
     THEN Deny(q, "STORAGE_LIMIT_EXCEEDED")
     ELSE IF noteCountAfter > limits.maxNotes
     THEN Deny(q, "NOTE_COUNT_LIMIT_EXCEEDED")
     ELSE [q EXCEPT !.pc = "write"]

\* SaveFindAll reading the notes and testing nothing
SaveFindAllUnchecked(q0, N) ==
  [q0 EXCEPT !.seen = Usage(FindByUser(N, q0.user)), !.pc = "write"]

\* SaveFindAll counting the saved note as one more, target or not
SaveFindAllCountsEvery(q0, N) ==
  LET limits == getPlanLimits(q0.plan)
      found == FindByUser(N, q0.user)
      q == [q0 EXCEPT !.seen = Usage(found)]
      storageBytesAfter ==
        SumBytes(found) - TargetBytes(q.target) + estimateNoteBytes(q.note)
  IN IF Cardinality(found) + 1 > limits.maxNotes
     THEN Deny(q, "NOTE_COUNT_LIMIT_EXCEEDED")
     ELSE IF storageBytesAfter > limits.maxStorageBytes
     THEN Deny(q, "STORAGE_LIMIT_EXCEEDED")
     ELSE [q EXCEPT !.pc = "write"]

\* the storage test with >= for >
SaveFindAllStorageAtLimit(q0, N) ==
  LET limits == getPlanLimits(q0.plan)
      found == FindByUser(N, q0.user)
      q == [q0 EXCEPT !.seen = Usage(found)]
      noteCountAfter ==
        IF q.target # {} THEN Cardinality(found) ELSE Cardinality(found) + 1
      storageBytesAfter ==
        SumBytes(found) - TargetBytes(q.target) + estimateNoteBytes(q.note)
  IN IF noteCountAfter > limits.maxNotes
     THEN Deny(q, "NOTE_COUNT_LIMIT_EXCEEDED")
     ELSE IF storageBytesAfter >= limits.maxStorageBytes
     THEN Deny(q, "STORAGE_LIMIT_EXCEEDED")
     ELSE [q EXCEPT !.pc = "write"]

\* lines 536-590: find({userId}) has answered; the count and storage checks
SaveFindAll(q0, N) ==
  LET limits == getPlanLimits(q0.plan)
      found == FindByUser(N, q0.user)
      q == [q0 EXCEPT !.seen = Usage(found)]
      currentCount == Cardinality(found)
      noteCountAfter ==
        IF q.target # {} THEN currentCount ELSE currentCount + 1
      currentBytes == SumBytes(found)
      oldBytes == TargetBytes(q.target)
      newBytes == estimateNoteBytes(q.note)
      storageBytesAfter == currentBytes - oldBytes + newBytes
  IN IF noteCountAfter > limits.maxNotes
     THEN Deny(q, "NOTE_COUNT_LIMIT_EXCEEDED")
     ELSE IF storageBytesAfter > limits.maxStorageBytes
     THEN Deny(q, "STORAGE_LIMIT_EXCEEDED")
     ELSE [q EXCEPT !.pc = "write"]

\* lines 592-611: updateOne of the target, else insertOne
SaveWrite(q, U, N, nid) ==
  IF q.target # {}
  THEN LET t == CHOOSE d \in q.target : TRUE
           matched == {d \in N : d._id = t._id /\ d.userId = q.user}
       IN IF matched # {} /\ DuplicateKey(N, WithId(q.note, t._id))
          THEN Out(Throw(q, "E11000"), U, N, nid)
          ELSE Out([Respond(q, 200) EXCEPT !.outId = t._id], U,
                   UpdateOne(N, t._id, q.user, q.note), nid)
  ELSE IF DuplicateKey(N, WithId(q.note, nid))
       THEN Out(Throw(q, "E11000"), U, N, nid)
       ELSE Out([Respond(q, 200) EXCEPT !.outId = nid], U,
                N \cup {WithId(q.note, nid)}, nid + 1)

\* ---- DELETE /notes/:id
\* the handler without the try around new ObjectId(id)
DeleteBeginUnchecked(q) == [q EXCEPT !.pc = "deleteOne"]

\* lines 616-623: new ObjectId(id) throws on a malformed id
DeleteBegin(q) ==
  IF ~ObjectIdIsValid(q.body.id) THEN Respond(q, 400)
  ELSE [q EXCEPT !.pc = "deleteOne"]

\* lines 625-630
DeleteWrite(q, U, N, nid) ==
  Out(Respond(q, 200), U, DeleteOne(N, q.body.id, q.user), nid)

\* ---- GET /notes, lines 475-481
ListFind(q, N, natural) ==
  LET sorted == SortedDocs(FindByUser(N, q.user), natural) IN
  [Respond(q, 200) EXCEPT
     !.outList = [i \in 1..Len(sorted) |-> serializeNoteDoc(sorted[i], q.now)]]

\* ---- POST /billing/upgrade
\* lines 451-464: the store applies the updateOne; the handler is still
\* suspended at its await
UpgradeWrite(q, U, N, nid) ==
  Out([q EXCEPT !.pc = "upgraded"], [U EXCEPT ![q.user] = "pro"], N, nid)

\* lines 466-470: the await has returned, the handler answers
UpgradeAnswered(q) == Respond(q, 200)

\* ---- POST /auth/google
\* the upsert with plan under $set
LoginUpsertResetsPlan(q, U, N, nid) ==
  Out([q EXCEPT !.pc = "loginFind"], [U EXCEPT ![q.user] = "free"], N, nid)

\* lines 409-422: upsert; plan is set on insert only
LoginUpsert(q, U, N, nid) ==
  Out([q EXCEPT !.pc = "loginFind"],
      [U EXCEPT ![q.user] = IF U[q.user] = "" THEN "free" ELSE U[q.user]],
      N, nid)

\* lines 424-436
LoginFind(q, U) == [Respond(q, 200) EXCEPT !.plan = normalizePlan(U[q.user])]

\* ---- the middleware
\* the routes without ensureDb in front
ArriveWithoutEnsureDb(q, dbReady) ==
  IF q.op = "login"
  THEN IF q.token = "" THEN Respond(q, 400)
       ELSE IF q.token = "bad" THEN Respond(q, 401)
       ELSE [q EXCEPT !.user = q.token, !.pc = "loginUpsert"]
  ELSE IF q.token = "" \/ q.token = "bad" THEN Respond(q, 401)
  ELSE [q EXCEPT !.user = q.token, !.pc = "plan"]

\* auth reading the subject of a token it does not verify: the token that
\* fails verification names A
ArriveUnverified(q, dbReady) ==
  IF ~dbReady THEN Respond(q, 503)
  ELSE IF q.op = "login"
  THEN IF q.token = "" THEN Respond(q, 400)
       ELSE IF q.token = "bad" THEN Respond(q, 401)
       ELSE [q EXCEPT !.user = q.token, !.pc = "loginUpsert"]
  ELSE IF q.token = "" THEN Respond(q, 401)
  ELSE [q EXCEPT !.user = IF q.token = "bad" THEN "A" ELSE q.token,
                 !.pc = "plan"]

\* ensureDb, then the synchronous head of auth (or of the login handler) and
\* the answer of verifyGoogleToken
Arrive(q, dbReady) ==
  IF ~dbReady THEN Respond(q, 503)
  ELSE IF q.op = "login"
  THEN IF q.token = "" THEN Respond(q, 400)
       ELSE IF q.token = "bad" THEN Respond(q, 401)
       ELSE [q EXCEPT !.user = q.token, !.pc = "loginUpsert"]
  ELSE IF q.token = "" \/ q.token = "bad" THEN Respond(q, 401)
  ELSE [q EXCEPT !.user = q.token, !.pc = "plan"]

\* auth without its lookup in the users collection: plan stays "free"
AuthPlanNoLookup(q, U) ==
  LET q1 == [q EXCEPT !.plan = "free"] IN
  CASE q.op = "save"    -> SaveBegin(q1)
    [] q.op = "delete"  -> DeleteBegin(q1)
    [] q.op = "list"    -> [q1 EXCEPT !.pc = "find"]
    [] q.op = "upgrade" -> [q1 EXCEPT !.pc = "upgrade"]
    [] q.op = "status"  -> Respond(q1, 200)

\* lines 373-381: users.findOne has answered, next() enters the handler
AuthPlan(q, U) ==
  LET q1 == [q EXCEPT !.plan = normalizePlan(U[q.user])] IN
  CASE q.op = "save"    -> SaveBegin(q1)
    [] q.op = "delete"  -> DeleteBegin(q1)
    [] q.op = "list"    -> [q1 EXCEPT !.pc = "find"]
    [] q.op = "upgrade" -> [q1 EXCEPT !.pc = "upgrade"]
    [] q.op = "status"  -> Respond(q1, 200)

\* the awaits that are operations on the notes collection
NotesCalls ==
  {"findById", "findByLocalId", "findAll", "write", "deleteOne", "find"}

\* The store call a request is suspended at takes effect and the handler
\* runs on to its next store call or to its response.
Resume(q, dbReady, U, N, nid, natural) ==
  CASE q.pc = "start"         -> Out(Arrive(q, dbReady), U, N, nid)
    [] q.pc = "plan"          -> Out(AuthPlan(q, U), U, N, nid)
    [] q.pc = "findById"      -> Out(SaveFindById(q, N), U, N, nid)
    [] q.pc = "findByLocalId" -> Out(SaveFindByLocalId(q, N), U, N, nid)
    [] q.pc = "findAll"       -> Out(SaveFindAll(q, N), U, N, nid)
    [] q.pc = "write"         -> SaveWrite(q, U, N, nid)
    [] q.pc = "deleteOne"     -> DeleteWrite(q, U, N, nid)
    [] q.pc = "find"          -> Out(ListFind(q, N, natural), U, N, nid)
    [] q.pc = "upgrade"       -> UpgradeWrite(q, U, N, nid)
    [] q.pc = "upgraded"      -> Out(UpgradeAnswered(q), U, N, nid)
    [] q.pc = "loginUpsert"   -> LoginUpsert(q, U, N, nid)
    [] q.pc = "loginFind"     -> Out(LoginFind(q, U), U, N, nid)

\* One step of a request; a step that ends at an await on the notes
\* collection has issued that operation, and the notes read for the quota
\* check are gone once the handler has returned.
Step(q, dbReady, U, N, nid, natural) ==
  LET o == Resume(q, dbReady, U, N, nid, natural) IN
  IF o.q.pc \in NotesCalls THEN [o EXCEPT !.q.calls = @ + 1]
  ELSE [o EXCEPT !.q.seen = Usage({})]

\* A request handled with no other request in between: its steps in a row.
RECURSIVE Run(_, _, _, _, _, _)
Run(q, dbReady, U, N, nid, natural) ==
  IF q.pc = "done" THEN Out(q, U, N, nid)
  ELSE LET o == Step(q, dbReady, U, N, nid, natural)
       IN Run(o.q, dbReady, o.users, o.notes, o.nextId, natural)

\* ------------------------------------------------------ the AI endpoint
GEMINI_MODEL == <<"gemini", "2.0", "flash">>
GEMINI_MODEL_FALLBACKS ==
  << <<"gemini", "2.0", "flash">>,
     <<"gemini", "2.0", "flash", "lite">>,
     <<"gemini", "2.5", "flash">> >>
GEMINI_API_VERSIONS == <<"v1beta", "v1">>
GEMINI_MODEL_CACHE_TTL_MS == 5 * 60 * 1000

\* the clock moves in thirds of the TTL
TickMs == GEMINI_MODEL_CACHE_TTL_MS \div 3

\* the body of the 503 of /ai/chat
AI_UNAVAILABLE ==
  "AI service unavailable. Check GEMINI_API_KEY/model in backend env and Render logs."

\* text.toLowerCase(), on the pieces of the model
ToLowerCase(word) ==
  CASE word = "Gemini" -> "gemini"
    [] word = "Google" -> "google"
    [] word = "GOOGLE" -> "google"
    [] OTHER -> word

\* the pieces (google|gemini) matches under the flag i
IsName(piece) == ToLowerCase(piece) \in {"google", "gemini"}

\* the pieces made of other characters of \w, which is [A-Za-z0-9_]
AsciiWordPieces == {"ask", "hello", "s", "bersetzer"}

\* the pieces made of letters that are not in \w; <U+00FC> is the letter
\* u with diaeresis
NonAsciiLetterPieces == {"<U+00FC>"}

\* the piece consists of characters of \w
IsWordChars(piece) == IsName(piece) \/ piece \in AsciiWordPieces

\* \b before piece i (at = i) or after it (at = i + 1): a position with a
\* character of \w on exactly one side; the pieces around it are names
WordBoundary(text, at) ==
  \/ at = 1
  \/ at = Len(text) + 1
  \/ IsWordChars(text[at - 1]) # IsWordChars(text[at])

\* line 176: replace(/\b(google|gemini)\b/gi, "Chimera Core")
sanitizeAiReply(text) ==
  [i \in 1..Len(text) |->
     IF IsName(text[i]) /\ WordBoundary(text, i) /\ WordBoundary(text, i + 1)
     THEN "Chimera Core"
     ELSE text[i]]

normalizeModelName(model) ==
  IF model # <<>> /\ Head(model) = "models/" THEN Tail(model) ELSE model

\* name.includes(part)
Includes(name, part) == \E i \in 1..Len(name) : name[i] = part

rankGeminiModel(model) ==
  LET name == normalizeModelName(model) IN
    (IF Includes(name, "flash") THEN 10 ELSE 0)
  + (IF Includes(name, "2.5") THEN 5 ELSE 0)
  + (IF Includes(name, "2.0") THEN 4 ELSE 0)
  - (IF Includes(name, "lite") THEN 2 ELSE 0)

\* F of the value of x: x is computed once, however often F refers to it
WithValue(F(_), x) == CHOOSE y \in {F(v) : v \in {x}} : TRUE

\* Array.from(new Set(s)): the first occurrence of every element, in order
RECURSIVE Unique(_)
Unique(s) ==
  WithValue(LAMBDA t :
    IF t = <<>> THEN <<>>
    ELSE WithValue(LAMBDA r :
           IF \E i \in 1..Len(r) : r[i] = t[Len(t)] THEN r
           ELSE Append(r, t[Len(t)]),
         Unique(SubSeq(t, 1, Len(t) - 1))),
    s)

\* s.sort((a, b) => rankGeminiModel(b) - rankGeminiModel(a)); the sort is
\* stable, models of one score keep their order
RECURSIVE SortByRank(_)
SortByRank(s) ==
  WithValue(LAMBDA t :
    IF t = <<>> THEN <<>>
    ELSE WithValue(LAMBDA i :
           <<t[i]>> \o SortByRank(SubSeq(t, 1, i - 1)
                                    \o SubSeq(t, i + 1, Len(t))),
         CHOOSE i \in 1..Len(t) :
           /\ \A j \in 1..Len(t) :
                rankGeminiModel(t[j]) <= rankGeminiModel(t[i])
           /\ \A j \in 1..(i - 1) :
                rankGeminiModel(t[j]) < rankGeminiModel(t[i])),
    s)

\* s.slice(0, n)
Slice(s, n) == SubSeq(s, 1, IF Len(s) < n THEN Len(s) ELSE n)

\* lines 268-274; no configured name is empty
configuredModels ==
  Unique([i \in 1..(1 + Len(GEMINI_MODEL_FALLBACKS)) |->
            normalizeModelName(IF i = 1 THEN GEMINI_MODEL
                               ELSE GEMINI_MODEL_FALLBACKS[i - 1])])

MaxCandidates == 10

\* const models without .slice(0, 10)
CandidateModelsUncapped(discoveredModels) ==
  SortByRank(Unique(configuredModels \o discoveredModels))

\* lines 278-282: const models
CandidateModels(discoveredModels) ==
  Slice(SortByRank(Unique(configuredModels \o discoveredModels)), MaxCandidates)

\* lines 236-242: the usable names of a models listing, each entry given by
\* its name and its supportedGenerationMethods
RECURSIVE AvailableModels(_)
AvailableModels(entries) ==
  IF entries = <<>> THEN <<>>
  ELSE LET e == Head(entries)
           name == normalizeModelName(e.name)
       IN (IF /\ "generateContent" \in e.supportedGenerationMethods
              /\ name # <<>> /\ Includes(name, "gemini")
           THEN <<name>> ELSE <<>>) \o AvailableModels(Tail(entries))

\* parts.join("\n")
RECURSIVE Join(_)
Join(parts) ==
  IF parts = <<>> THEN <<>>
  ELSE IF Len(parts) = 1 THEN Head(parts)
  ELSE Head(parts) \o <<"\n">> \o Join(Tail(parts))

WhiteSpace == {" ", "\n"}

\* text.trim()
RECURSIVE Trim(_)
Trim(text) ==
  IF text = <<>> THEN <<>>
  ELSE IF Head(text) \in WhiteSpace THEN Trim(Tail(text))
  ELSE IF text[Len(text)] \in WhiteSpace
       THEN Trim(SubSeq(text, 1, Len(text) - 1))
  ELSE text

\* lines 322-325: the texts of the parts joined and trimmed
ExtractReply(parts) == Trim(Join(parts))

\* What an external call comes back with. kind "ok": response.ok, with the
\* models of a listing or the parts of the first candidate; "status": a
\* response that is not ok, with its status and its body text (of at most
\* 500 characters); "throw": fetch or the reading of the body rejects.
OkListing(entries) ==
  [kind |-> "ok", status |-> 200, body |-> "", models |-> entries,
   parts |-> <<>>]
OkGeneration(parts) ==
  [kind |-> "ok", status |-> 200, body |-> "", models |-> <<>>,
   parts |-> parts]
NotOk(status, body) ==
  [kind |-> "status", status |-> status, body |-> body, models |-> <<>>,
   parts |-> <<>>]
TransportError ==
  [kind |-> "throw", status |-> 0, body |-> "", models |-> <<>>,
   parts |-> <<>>]

\* An Error object. kind "failed": `Model m @ v failed (status): body`,
\* "empty": `Model m @ v returned empty output`, "transport": what fetch
\* rejected with, "nokey": `Missing GEMINI_API_KEY in environment`.
\* attempt: the generation request it arose from.
AiError(kind, attempt, pair, status, body) ==
  [kind |-> kind, attempt |-> attempt, pair |-> pair, status |-> status,
   body |-> body]
NoError == AiError("none", 0, <<>>, 0, "")

HISTORY_WINDOW == 12

\* text.trim(), on the history texts of the model
TrimString(text) ==
  CASE text = " " -> ""
    [] text = " b " -> "b"
    [] OTHER -> text

\* history.slice(-n)
LastN(s, n) == SubSeq(s, IF Len(s) > n THEN Len(s) - n + 1 ELSE 1, Len(s))

\* lines 186-194: what one entry is mapped to; the null of an entry
\* without text is the content with the empty text
MapEntry(entry) ==
  LET text == TrimString(entry.text) IN
  IF text = "" THEN [role |-> "", text |-> ""]
  ELSE [role |-> IF entry.role = "assistant" THEN "model" ELSE "user",
        text |-> text]

NotNull(content) == content.text # ""

\* the whole history mapped, without .slice(-12)
mapHistoryToContentsWhole(history) ==
  SelectSeq([k \in 1..Len(history) |-> MapEntry(history[k])], NotNull)

\* lines 179-196; history is an array (line 636)
mapHistoryToContents(history) ==
  LET window == LastN(history, HISTORY_WINDOW) IN
  SelectSeq([k \in 1..Len(window) |-> MapEntry(window[k])], NotNull)

\* lines 262-266: const contents
ChatContents(message, history) ==
  Append(mapHistoryToContents(history), [role |-> "user", text |-> message])

\* A /ai/chat request as it arrives; message is the trimmed message,
\* history the array of the body, [] when the body holds none.
NewChat(message, history) ==
  [ pc |-> "start", message |-> message, history |-> history,
    contents |-> <<>>,     \* const contents
    sent |-> {},           \* the contents the generation requests carried
    now |-> 0,             \* const now of fetchAvailableGeminiModels
    dv |-> 0,              \* the API version the listing is asked of
    lists |-> 0,           \* model listings requested
    via |-> "",            \* the return of fetchAvailableGeminiModels taken:
                           \* "cache" (line 222), "listing" (247), "end" (254)
    models |-> <<>>,       \* const models
    m |-> 0, v |-> 0,      \* position of the attempt loop
    attempts |-> <<>>,     \* the generation requests issued, in order
    failed |-> 0,          \* attempts that ended in the catch block
    lastError |-> NoError,
    raw |-> <<>>,          \* the reply as extracted from the response
    status |-> 0,          \* HTTP status of the response, 0: none yet
    reply |-> <<>>,        \* body.reply
    error |-> "",          \* body.error
    thrown |-> NoError ]   \* what callGemini threw

NoChat == [NewChat("", <<>>) EXCEPT !.pc = "idle"]

\* What one step of a chat request leaves behind.
AiOut(q, models, cachedAt, populated) ==
  [q |-> q, cachedGeminiModels |-> models, geminiModelsCachedAt |-> cachedAt,
   populatedAt |-> populated]

\* the 503 that carries the message of the error
ChatFailedWithDetail(q, error) ==
  [q EXCEPT !.pc = "done", !.status = 503, !.thrown = error,
            !.error = error.body]

\* lines 645-650: callGemini threw
ChatFailed(q, error) ==
  [q EXCEPT !.pc = "done", !.status = 503, !.thrown = error,
            !.error = AI_UNAVAILABLE]

\* lines 288-312: the generation request for models[m] at version v
Attempt(q, m, v) ==
  [q EXCEPT !.pc = "generate", !.m = m, !.v = v,
            !.attempts = Append(@, <<q.models[m], GEMINI_API_VERSIONS[v]>>),
            !.sent = @ \cup {q.contents}]

\* the catch block going on with the next model
NextAttemptSkipsVersion(q, error) ==
  LET q1 == [q EXCEPT !.lastError = error, !.failed = @ + 1] IN
  IF q.m < Len(q.models) THEN Attempt(q1, q.m + 1, 1)
  ELSE ChatFailed(q1, error)

\* the catch block without `lastError = error`
NextAttemptForgetsError(q, error) ==
  LET q1 == [q EXCEPT !.failed = @ + 1] IN
  IF q.v < Len(GEMINI_API_VERSIONS) THEN Attempt(q1, q.m, q.v + 1)
  ELSE IF q.m < Len(q.models) THEN Attempt(q1, q.m + 1, 1)
  ELSE ChatFailed(q1, error)

\* lines 332-339: the catch block and the advance of the two loops
NextAttempt(q, error) ==
  LET q1 == [q EXCEPT !.lastError = error, !.failed = @ + 1] IN
  IF q.v < Len(GEMINI_API_VERSIONS) THEN Attempt(q1, q.m, q.v + 1)
  ELSE IF q.m < Len(q.models) THEN Attempt(q1, q.m + 1, 1)
  ELSE ChatFailed(q1, error)

\* the reply recorded and the loop going on
SucceedAndGoOn(q, reply) ==
  LET q1 == [q EXCEPT !.raw = reply, !.status = 200,
                      !.reply = sanitizeAiReply(reply)] IN
  IF q.v < Len(GEMINI_API_VERSIONS) THEN Attempt(q1, q.m, q.v + 1)
  ELSE IF q.m < Len(q.models) THEN Attempt(q1, q.m + 1, 1)
  ELSE [q1 EXCEPT !.pc = "done"]

\* lines 331 and 643-644: return sanitizeAiReply(reply), res.json({reply})
Succeed(q, reply) ==
  [q EXCEPT !.pc = "done", !.raw = reply, !.status = 200,
            !.reply = sanitizeAiReply(reply)]

\* lines 278-285: fetchAvailableGeminiModels has returned (its locals are
\* gone); the candidates, and the first attempt
StartLoop(q, discoveredModels) ==
  Attempt([q EXCEPT !.models = CandidateModels(discoveredModels),
                    !.now = 0, !.dv = 0], 1, 1)

\* lines 226-230: the listing request at API version dv
Discover(q, dv) == [q EXCEPT !.pc = "discover", !.dv = dv, !.lists = @ + 1]

\* every listing that was read is kept
CacheWorthyAlways(available) == TRUE

\* line 244
CacheWorthy(available) == Len(available) > 0

\* lines 218-221
CacheFresh(models, cachedAt, now) ==
  Len(models) > 0 /\ now - cachedAt < GEMINI_MODEL_CACHE_TTL_MS

\* lines 635-643 and 258-277, 217-230: the handler up to its first await
ChatBegin(q, key, models, cachedAt, now) ==
  LET q1 == [q EXCEPT !.contents = ChatContents(q.message, q.history),
                      !.now = now] IN
  IF q.message = "" THEN [q EXCEPT !.pc = "done", !.status = 400,
                                    !.error = "Missing message"]
  ELSE IF ~key THEN ChatFailed(q, AiError("nokey", 0, <<>>, 0, ""))
  ELSE IF CacheFresh(models, cachedAt, now)
  THEN StartLoop([q1 EXCEPT !.via = "cache"], models)
  ELSE Discover(q1, 1)

\* fetchAvailableGeminiModels throwing when no listing was usable
ChatDiscoveredOrThrows(q, response, models, cachedAt, populated, clock) ==
  LET available == AvailableModels(response.models) IN
  IF response.kind = "ok" /\ CacheWorthy(available)
  THEN AiOut(StartLoop([q EXCEPT !.via = "listing"], Unique(available)),
             Unique(available), q.now, clock)
  ELSE IF q.dv < Len(GEMINI_API_VERSIONS)
       THEN AiOut(Discover(q, q.dv + 1), models, cachedAt, populated)
  ELSE AiOut(ChatFailed([q EXCEPT !.via = "end"],
                        AiError("transport", 0, <<>>, 0, "")),
             models, cachedAt, populated)

\* fetchAvailableGeminiModels asking the API versions over again until a
\* listing is usable
ChatDiscoveredRetrying(q, response, models, cachedAt, populated, clock) ==
  LET available == AvailableModels(response.models) IN
  IF response.kind = "ok" /\ CacheWorthy(available)
  THEN AiOut(StartLoop([q EXCEPT !.via = "listing"], Unique(available)),
             Unique(available), q.now, clock)
  ELSE IF q.dv < Len(GEMINI_API_VERSIONS)
       THEN AiOut(Discover(q, q.dv + 1), models, cachedAt, populated)
  ELSE AiOut(Discover(q, 1), models, cachedAt, populated)

\* lines 230-254: the listing has answered
ChatDiscovered(q, response, models, cachedAt, populated, clock) ==
  LET available == AvailableModels(response.models) IN
  IF response.kind = "ok" /\ CacheWorthy(available)
  THEN AiOut(StartLoop([q EXCEPT !.via = "listing"], Unique(available)),
             Unique(available), q.now, clock)
  ELSE IF q.dv < Len(GEMINI_API_VERSIONS)
       THEN AiOut(Discover(q, q.dv + 1), models, cachedAt, populated)
  ELSE AiOut(StartLoop([q EXCEPT !.via = "end"], models),
             models, cachedAt, populated)

\* lines 314-335: the generation request has answered
ChatGenerated(q, response) ==
  LET pair == q.attempts[Len(q.attempts)]
      n == Len(q.attempts)
      reply == ExtractReply(response.parts)
  IN IF response.kind = "throw"
     THEN NextAttempt(q, AiError("transport", n, pair, 0, ""))
     ELSE IF response.kind = "status"
     THEN NextAttempt(q, AiError("failed", n, pair, response.status,
                                 response.body))
     ELSE IF reply = <<>>
     THEN NextAttempt(q, AiError("empty", n, pair, 0, ""))
     ELSE Succeed(q, reply)

\* ------------------------------------------------------------- inputs
NoBody == [f \in {} |-> 0]
Field(f, v) == [g \in {f} |-> v]
Optional(f, values) == {NoBody} \cup {Field(f, v) : v \in values}

\* request ids that are no ObjectId string
MalformedIds == {-1}

AtLimit == Text(FREE_MAX_CHARS_PER_NOTE, FREE_MAX_CHARS_PER_NOTE)
OverLimit == Text(FREE_MAX_CHARS_PER_NOTE + 1, FREE_MAX_CHARS_PER_NOTE + 1)

LocalIds == {"L1", "L2"}
Contents == {AtLimit, OverLimit}

\* Owner A sends every content and alone upgrades; owner B sends short
\* notes only, and may name A in a userId field of the body.
ContentsOf(o) == IF o = "A" THEN Contents ELSE {}
ForgedOwnersOf(o) == IF o = "B" THEN {"A"} ELSE {}

SaveBodies(o) ==
  { i @@ l @@ c @@ u :
      i \in Optional("id", ObjectIds \cup MalformedIds),
      l \in Optional("localId", LocalIds),
      c \in Optional("content", ContentsOf(o)),
      u \in Optional("userId", ForgedOwnersOf(o)) }

DeleteParams == {Field("id", v) : v \in ObjectIds \cup MalformedIds}

\* the store's natural order of the documents, as one query sees it
Ascending == [i \in ObjectIds |-> i]
NaturalOrders == { Ascending, [i \in ObjectIds |-> MaxIds + 1 - i] }

Clock == 1

\* lines 66-70: the indexes connectMongo creates on the notes collection,
\* the unique sparse one on (userId, localId) and the one on
\* (userId, lastModified)
NoteIndexes == <<"localId", "lastModified">>

\* the process once connectMongo has returned at its first call
Connected ==
  /\ mongoLastError = ""
  /\ reconnectTimer = FALSE
  /\ listening = TRUE
  /\ connecting = [c \in Callers |-> "idle"]
  /\ assigned = 1
  /\ clients = 1
  /\ retries = 0
  /\ reachable = TRUE
  /\ indexes = {NoteIndexes[1], NoteIndexes[2]}

\* ------------------------------------------------------------- Spec
\* Requests of signed-in owners, handled one at a time: Serve is one whole
\* request, from its arrival to its response, kept in slot 1 until the
\* response has been sent off (Close).
Init ==
  /\ db = TRUE
  /\ users = [o \in Owners |-> ""]
  /\ notes = {}
  /\ nextId = 1
  /\ reqs = [i \in Slots |-> Idle]
  /\ cachedGeminiModels = <<>>
  /\ geminiModelsCachedAt = 0
  /\ dateNow = 0
  /\ populatedAt = 0
  /\ chats = [i \in Slots |-> NoChat]
  /\ Connected

Serve(op, token, body, natural) ==
  LET o == Run(NewRequest(op, token, body, Clock), db, users, notes, nextId,
               natural)
  IN /\ \A i \in Slots : reqs[i].pc = "idle"
     /\ o.nextId <= MaxIds + 1
     /\ reqs' = [reqs EXCEPT ![1] = o.q]
     /\ users' = o.users
     /\ notes' = o.notes
     /\ nextId' = o.nextId
     /\ UNCHANGED <<db, aiVars, connVars>>

Close(i) ==
  /\ reqs[i].pc = "done"
  /\ reqs' = [reqs EXCEPT ![i] = Idle]
  /\ UNCHANGED <<db, users, notes, nextId, aiVars, connVars>>

PostNotes == \E t \in Owners : \E b \in SaveBodies(t) :
               Serve("save", t, b, Ascending)
GetNotes == \E t \in Owners, n \in NaturalOrders : Serve("list", t, NoBody, n)
DeleteNote == \E t \in Owners, b \in DeleteParams :
                Serve("delete", t, b, Ascending)
BillingUpgrade == Serve("upgrade", "A", NoBody, Ascending)
Closed == \E i \in Slots : Close(i)

Next ==
  \/ PostNotes
  \/ GetNotes
  \/ DeleteNote
  \/ BillingUpgrade
  \/ Closed

Spec == Init /\ [][Next]_vars

\* ----------------------------------------------------------- SpecConc
\* Requests that overlap: a request takes the lowest free slot, runs to its
\* first await (Begin), and then moves one store call at a time (Proceed),
\* the steps of the requests in flight interleaved in any order.
\* A saves by localId and by id, B by the same localId; both list, and both
\* ask to delete the note with the first id.
ConcSaveBodies(o) ==
  IF o = "A"
  THEN {Field("localId", "L1"), Field("id", 1)}
  ELSE {Field("localId", "L1")}

ConcDeleteParams == {Field("id", 1)}

Begin(i, op, token, body) ==
  /\ reqs[i].pc = "idle"
  /\ \A j \in 1..(i - 1) : reqs[j].pc # "idle"
  /\ reqs' = [reqs EXCEPT
                ![i] = Arrive(NewRequest(op, token, body, Clock), db)]
  /\ UNCHANGED <<db, users, notes, nextId, aiVars, connVars>>

Proceed(i, natural) ==
  /\ reqs[i].pc \notin {"idle", "done"}
  /\ LET o == Step(reqs[i], db, users, notes, nextId, natural)
     IN /\ o.nextId <= MaxIds + 1
        /\ reqs' = [reqs EXCEPT ![i] = o.q]
        /\ users' = o.users
        /\ notes' = o.notes
        /\ nextId' = o.nextId
        /\ UNCHANGED <<db, aiVars, connVars>>

Arrival ==
  \E i \in Slots, t \in Owners :
    \/ \E b \in ConcSaveBodies(t) : Begin(i, "save", t, b)
    \/ \E b \in ConcDeleteParams : Begin(i, "delete", t, b)
    \/ Begin(i, "list", t, NoBody)

\* only the query of GET /notes sees the natural order
Progress ==
  \E i \in Slots :
    IF reqs[i].pc = "find" THEN \E n \in NaturalOrders : Proceed(i, n)
    ELSE Proceed(i, Ascending)

NextConc ==
  \/ Arrival
  \/ Progress
  \/ Closed

SpecConc == Init /\ [][NextConc]_vars

\* ----------------------------------------------------------- SpecRace
\* Overlapping saves of one free-tier owner near the quota boundary: A saves
\* a short note and two notes of content at the char limit, each under its
\* own localId, the steps of the requests in flight interleaved in any order.
RaceBodies ==
  { Field("localId", "L1"),
    Field("localId", "L2") @@ Field("content", AtLimit),
    Field("localId", "L3") @@ Field("content", AtLimit) }

RaceArrival == \E i \in Slots, b \in RaceBodies : Begin(i, "save", "A", b)

NextRace ==
  \/ RaceArrival
  \/ Progress
  \/ Closed

SpecRace == Init /\ [][NextRace]_vars

\* ----------------------------------------------------------- SpecList
\* Notes that carry their own dates, and the lists of them: A saves notes
\* under three localIds with lastModified, updatedAt, both or neither in the
\* body, B saves one note; both list, the store's natural order being
\* either way. A may upgrade, and then hold more than FREE_MAX_NOTES notes.
DateFields ==
  { NoBody,
    Field("lastModified", 2),
    Field("updatedAt", ToISOString(2)),
    Field("lastModified", 2) @@ Field("updatedAt", ToISOString(1)),
    Field("lastModified", 2) @@ Field("updatedAt", ToISOString(3)) }

DatedBodies(o) ==
  IF o = "A"
  THEN { Field("localId", l) @@ d :
           l \in LocalIds \cup {"L3"}, d \in DateFields }
  ELSE { Field("localId", "L1") }

PostNotesDated ==
  \E t \in Owners : \E b \in DatedBodies(t) : Serve("save", t, b, Ascending)

NextList ==
  \/ PostNotesDated
  \/ GetNotes
  \/ BillingUpgrade
  \/ Closed

SpecList == Init /\ [][NextList]_vars

\* ---------------------------------------------------------- SpecQuota
\* One free-tier owner at the storage limit, requests one at a time. A saves
\* notes under three localIds, under no localId and by id, and deletes them.
\* Beside the contents at and over the char limit there are two contents of
\* two-byte characters, sized so that two notes of A come to exactly
\* FREE_MAX_STORAGE_BYTES, and to one byte more.
ShortNote == normalizeNoteDoc(Field("localId", "L1"), "A", Clock)
Room == FREE_MAX_STORAGE_BYTES - 2 * estimateNoteBytes(ShortNote)
Filling == Text(Room \div 2, Room)
Spilling == Text(Room \div 2 + 1, Room + 1)

QuotaBodies ==
  { t @@ c :
      t \in Optional("localId", LocalIds \cup {"L3"})
               \cup {Field("id", i) : i \in ObjectIds},
      c \in Optional("content", {Filling, Spilling, AtLimit, OverLimit}) }

PostNotesQuota == \E b \in QuotaBodies : Serve("save", "A", b, Ascending)
DeleteNoteQuota == \E b \in DeleteParams : Serve("delete", "A", b, Ascending)

NextQuota ==
  \/ PostNotesQuota
  \/ DeleteNoteQuota
  \/ Closed

SpecQuota == Init /\ [][NextQuota]_vars

\* ----------------------------------------------------------- SpecPlan
\* One owner who upgrades once, while saves of that owner are in flight. A
\* first saves short notes under two localIds, one request at a time, until
\* it holds FREE_MAX_NOTES notes. From then on A saves under a third
\* localId, a short note or one over the char limit, and asks for the
\* upgrade while on the free plan; the steps of these requests are
\* interleaved in any order.
FirstBodies == {Field("localId", l) : l \in LocalIds}

PlanBodies ==
  { Field("localId", "L3"),
    Field("localId", "L3") @@ Field("content", OverLimit) }

PlanArrival ==
  IF Cardinality(FindByUser(notes, "A")) < FREE_MAX_NOTES
  THEN /\ \A j \in Slots : reqs[j].pc = "idle"
       /\ \E b \in FirstBodies : Begin(1, "save", "A", b)
  ELSE \E i \in Slots :
         \/ \E b \in PlanBodies : Begin(i, "save", "A", b)
         \/ /\ users["A"] # "pro"
            /\ \A j \in Slots : reqs[j].op # "upgrade"
            /\ Begin(i, "upgrade", "A", NoBody)

NextPlan ==
  \/ PlanArrival
  \/ Progress
  \/ Closed

SpecPlan == Init /\ [][NextPlan]_vars

\* ------------------------------------------------------------- SpecAi
\* /ai/chat requests, one at a time; every external call may come back in
\* any way, and the clock may move while a call is out.
Messages == {"", "hi"}

\* no history; a few turns, among them roles of no kind and texts that are
\* blank; more turns than the window holds
Turn(role, text) == [role |-> role, text |-> text]
Histories ==
  { <<>>,
    << Turn("assistant", "a"), Turn("system", " b "), Turn("user", " "),
       Turn("", ""), Turn("user", "c") >>,
    [k \in 1..MaxHistory |->
       Turn(IF k % 2 = 1 THEN "user" ELSE "assistant", "t" \o ToString(k))] }

Gemini25Pro == <<"models/", "gemini", "2.5", "pro">>
Gemini15Flash == <<"gemini", "1.5", "flash">>
Entry(name, methods) == [name |-> name, supportedGenerationMethods |-> methods]

\* a listing of more models than one request tries
ManyModels ==
  << Gemini25Pro,
     <<"models/", "gemini", "2.0", "flash">>,
     <<"models/", "gemini", "1.5", "flash">>,
     <<"models/", "gemini", "1.5", "pro">>,
     <<"models/", "gemini", "2.5", "flash", "lite">>,
     <<"models/", "gemini", "2.0", "pro">>,
     <<"models/", "gemini", "1.5", "flash", "8b">>,
     <<"models/", "gemini", "exp">>,
     <<"models/", "gemini", "2.0", "flash", "exp">>,
     <<"models/", "gemini", "pro">> >>

ListResponses ==
  { TransportError,
    OkListing([k \in 1..Len(ManyModels) |->
                 Entry(ManyModels[k], {"generateContent"})]),
    NotOk(403, "denied"),
    OkListing(<<>>),
    OkListing(<< Entry(<<"models/", "embedding", "001">>, {"embedContent"}),
                 Entry(<<"models/", "aqa">>, {"generateContent"}),
                 Entry(Gemini25Pro, {"countTokens"}) >>),
    OkListing(<< Entry(Gemini25Pro, {"generateContent", "countTokens"}),
                 Entry(<<"gemini", "2.5", "pro">>, {"generateContent"}),
                 Entry(<<"models/", "gemini", "2.0", "flash">>,
                       {"generateContent"}) >>),
    OkListing(<< Entry(Gemini15Flash, {"generateContent"}) >>) }

GenerationResponses ==
  { TransportError,
    NotOk(429, "quota"),
    OkGeneration(<<>>),
    OkGeneration(<< <<" ">>, <<>> >>),
    OkGeneration(<< <<"hello">> >>),
    OkGeneration(<< <<"ask">>, <<"Gemini">> >>),
    OkGeneration(<< <<"GOOGLE", "-", "gemini", "s", " ">> >>),
    OkGeneration(<< <<"Google", "<U+00FC>", "bersetzer">> >>) }

ChatArrive(i, message, history, key) ==
  /\ chats[i].pc = "idle"
  /\ \A j \in 1..(i - 1) : chats[j].pc # "idle"
  /\ chats' = [chats EXCEPT
                 ![i] = ChatBegin(NewChat(message, history), key,
                                  cachedGeminiModels, geminiModelsCachedAt,
                                  dateNow)]
  /\ UNCHANGED <<cachedGeminiModels, geminiModelsCachedAt, dateNow,
                 populatedAt, storeVars, connVars>>

ChatListed(i, response) ==
  /\ chats[i].pc = "discover"
  /\ LET o == ChatDiscovered(chats[i], response, cachedGeminiModels,
                             geminiModelsCachedAt, populatedAt, dateNow)
     IN /\ chats' = [chats EXCEPT ![i] = o.q]
        /\ cachedGeminiModels' = o.cachedGeminiModels
        /\ geminiModelsCachedAt' = o.geminiModelsCachedAt
        /\ populatedAt' = o.populatedAt
  /\ UNCHANGED <<dateNow, storeVars, connVars>>

ChatAnswered(i, response) ==
  /\ chats[i].pc = "generate"
  /\ chats' = [chats EXCEPT ![i] = ChatGenerated(chats[i], response)]
  /\ UNCHANGED <<cachedGeminiModels, geminiModelsCachedAt, dateNow,
                 populatedAt, storeVars, connVars>>

ChatClose(i) ==
  /\ chats[i].pc = "done"
  /\ chats' = [chats EXCEPT ![i] = NoChat]
  /\ UNCHANGED <<cachedGeminiModels, geminiModelsCachedAt, dateNow,
                 populatedAt, storeVars, connVars>>

Tick ==
  /\ dateNow < MaxTicks * TickMs
  /\ dateNow' = dateNow + TickMs
  /\ UNCHANGED <<cachedGeminiModels, geminiModelsCachedAt, populatedAt,
                 chats, storeVars, connVars>>

PostAiChat ==
  \E m \in Messages, h \in Histories, key \in BOOLEAN : ChatArrive(1, m, h, key)
ModelsListed == \E i \in Slots, r \in ListResponses : ChatListed(i, r)
GenerationAnswered ==
  \E i \in Slots, r \in GenerationResponses : ChatAnswered(i, r)
ChatClosed == \E i \in Slots : ChatClose(i)

NextAi ==
  \/ PostAiChat
  \/ ModelsListed
  \/ GenerationAnswered
  \/ ChatClosed
  \/ Tick

SpecAi == Init /\ [][NextAi]_vars

\* ---------------------------------------------------------- SpecAiLive
\* Chat requests without history, one at a time, under the assumption that
\* every external call completes or fails: a listing or a generation
\* request that is out is answered in the end.
PostAiChatPlain == \E key \in BOOLEAN : ChatArrive(1, "hi", <<>>, key)

NextAiLive ==
  \/ PostAiChatPlain
  \/ ModelsListed
  \/ GenerationAnswered
  \/ ChatClosed
  \/ Tick

SpecAiLive ==
  /\ Init /\ [][NextAiLive]_vars
  /\ WF_vars(ModelsListed) /\ WF_vars(GenerationAnswered)

\* ----------------------------------------------------------- SpecConn
\* The process from its start: start() has called connectMongoWithRetry and
\* the first call of connectMongo is suspended at mongo.connect(). The store
\* may become reachable or unreachable at any time; a call of the driver
\* resolves when the store is reachable as it is answered, and rejects when
\* it is not. MONGO_URI is configured.

\* the interval callback never installed
RetryTimerNeverSet(c, timer) == timer

\* lines 670-682: the catch of connectMongoWithRetry installs the interval
\* unless there is one; the catch of the callback leaves it
RetryTimer(c, timer) == IF c = 0 THEN TRUE ELSE timer

\* lines 57-64: the head of connectMongo
ConnectMongoBegin(dbSet) == IF dbSet THEN "returned" ELSE "connect"

\* lines 663-666 and 674-676: connectMongo has returned to caller c; after
\* connectMongoWithRetry start() goes on to app.listen
ConnectReturned(c) ==
  /\ reconnectTimer' = FALSE
  /\ listening' = (listening \/ c = 0)

\* lines 667-683 and 677-680: connectMongo has thrown to caller c
ConnectThrew(c, message) ==
  /\ mongoLastError' = message
  /\ reconnectTimer' = RetryTimer(c, reconnectTimer)
  /\ listening' = (listening \/ c = 0)

\* lines 64-65: mongo.connect() is answered
ConnectAnswered(c) ==
  /\ connecting[c] = "connect"
  /\ IF reachable
     THEN /\ db' = TRUE
          /\ assigned' = assigned + 1
          /\ clients' = clients + 1
          /\ connecting' = [connecting EXCEPT ![c] = "index1"]
          /\ UNCHANGED <<mongoLastError, reconnectTimer, listening>>
     ELSE /\ connecting' = [connecting EXCEPT ![c] = "idle"]
          /\ ConnectThrew(c, "connect failed")
          /\ UNCHANGED <<db, assigned, clients>>
  /\ UNCHANGED <<users, notes, nextId, reqs, aiVars, retries, reachable,
                 indexes>>

\* lines 66-72: a createIndex is answered
IndexAnswered(c) ==
  /\ connecting[c] \in {"index1", "index2"}
  /\ IF ~reachable
     THEN /\ connecting' = [connecting EXCEPT ![c] = "idle"]
          /\ ConnectThrew(c, "createIndex failed")
          /\ UNCHANGED indexes
     ELSE IF connecting[c] = "index1"
     THEN /\ connecting' = [connecting EXCEPT ![c] = "index2"]
          /\ indexes' = indexes \cup {NoteIndexes[1]}
          /\ UNCHANGED <<mongoLastError, reconnectTimer, listening>>
     ELSE /\ connecting' = [connecting EXCEPT ![c] = "idle"]
          /\ indexes' = indexes \cup {NoteIndexes[2]}
          /\ mongoLastError' = ""
          /\ ConnectReturned(c)
  /\ UNCHANGED <<db, assigned, clients>>
  /\ UNCHANGED <<users, notes, nextId, reqs, aiVars, retries, reachable>>

\* lines 671-673: the interval fires and its callback calls connectMongo; a
\* run of the callback does not wait for the runs before it
TimerFires(c) ==
  /\ reconnectTimer
  /\ c > 0
  /\ connecting[c] = "idle"
  /\ \A j \in 1..(c - 1) : connecting[j] # "idle"
  /\ retries' = IF retries < MaxRetries THEN retries + 1 ELSE retries
  /\ IF ConnectMongoBegin(db) = "returned"
     THEN /\ ConnectReturned(c)
          /\ UNCHANGED <<connecting, mongoLastError>>
     ELSE /\ connecting' = [connecting EXCEPT ![c] = "connect"]
          /\ UNCHANGED <<mongoLastError, reconnectTimer, listening>>
  /\ UNCHANGED <<db, assigned, clients, indexes>>
  /\ UNCHANGED <<users, notes, nextId, reqs, aiVars, reachable>>

StoreChanges ==
  /\ reachable' = ~reachable
  /\ UNCHANGED <<storeVars, aiVars, mongoLastError, reconnectTimer, listening,
                 connecting, assigned, clients, retries, indexes>>

\* Requests of A, one at a time, to every route behind ensureDb, with a
\* token of A, with none and with one that fails verification; they arrive
\* once the process listens.
Tokens == {"A", "", "bad"}

ConnArrival ==
  /\ listening
  /\ \E t \in Tokens :
       \/ Begin(1, "login", t, NoBody)
       \/ Begin(1, "status", t, NoBody)
       \/ Begin(1, "upgrade", t, NoBody)
       \/ Begin(1, "save", t, Field("localId", "L1"))
       \/ Begin(1, "list", t, NoBody)
       \/ Begin(1, "delete", t, Field("id", 1))

\* a store call of a request is answered while the store is reachable
ConnProgress == reachable /\ Progress

MongoConnected == \E c \in Callers : ConnectAnswered(c)
IndexCreated == \E c \in Callers : IndexAnswered(c)
Reconnect == \E c \in Callers : TimerFires(c)

InitConn ==
  /\ db = FALSE
  /\ users = [o \in Owners |-> ""]
  /\ notes = {}
  /\ nextId = 1
  /\ reqs = [i \in Slots |-> Idle]
  /\ cachedGeminiModels = <<>>
  /\ geminiModelsCachedAt = 0
  /\ dateNow = 0
  /\ populatedAt = 0
  /\ chats = [i \in Slots |-> NoChat]
  /\ mongoLastError = ""
  /\ reconnectTimer = FALSE
  /\ listening = FALSE
  /\ connecting = [c \in Callers |-> IF c = 0 THEN "connect" ELSE "idle"]
  /\ assigned = 0
  /\ clients = 0
  /\ retries = 0
  /\ reachable \in BOOLEAN
  /\ indexes = {}

NextConn ==
  \/ MongoConnected
  \/ IndexCreated
  \/ Reconnect
  \/ StoreChanges
  \/ ConnArrival
  \/ ConnProgress
  \/ Closed

SpecConn == InitConn /\ [][NextConn]_vars

\* The timer fires as long as it is set, and a call of the driver is
\* answered, by its result or by its timeout.
SpecConnLive ==
  /\ SpecConn
  /\ WF_vars(Reconnect)
  /\ \A c \in Callers : WF_vars(ConnectAnswered(c)) /\ WF_vars(IndexAnswered(c))

\* What the claims speak of, said over the collections and the request
\* alone. In Spec slot 1 holds the request that was handled last.
Last == reqs[1]

\* this step handles one request from its arrival to its response
Served == reqs[1].pc = "idle" /\ reqs'[1].pc = "done"

SignedIn(q) == q.token \in Owners
OwnNotes(N, q) == {d \in N : d.userId = q.token}
LocalIdOf(q) == IF Has(q.body, "localId") THEN q.body.localId ELSE ""
ContentOf(q) == IF Has(q.body, "content") THEN q.body.content ELSE EmptyText

\* the records of the caller the request's id and localId name
MatchesId(N, q) ==
  IF IdGiven(q.body) THEN {d \in OwnNotes(N, q) : d._id = q.body.id} ELSE {}
MatchesLocalId(N, q) ==
  {d \in OwnNotes(N, q) : LocalIdOf(q) # "" /\ d.localId = LocalIdOf(q)}
UpdateTarget(N, q) ==
  IF MatchesId(N, q) # {} THEN MatchesId(N, q) ELSE MatchesLocalId(N, q)

OnFreePlan(U, q) == U[q.token] # "pro"
ViolatesChars(q) == ContentOf(q).chars > FREE_MAX_CHARS_PER_NOTE
ViolatesCount(N, q) ==
  Cardinality(OwnNotes(N, q)) + (IF UpdateTarget(N, q) = {} THEN 1 ELSE 0)
    > FREE_MAX_NOTES
ViolatesStorage(N, q) ==
  SumBytes(OwnNotes(N, q)) - SumBytes(UpdateTarget(N, q))
    + estimateNoteBytes(normalizeNoteDoc(q.body, q.token, q.now))
    > FREE_MAX_STORAGE_BYTES

\* C1: whatever requests overlap, a note of one owner is never in the list
\* another owner is given, and no step of a delete request removes or
\* changes a note of an owner other than its caller.
C1_Isolation ==
  [][ \A i \in Slots :
        LET q == reqs'[i] IN
        /\ (q.op = "list" /\ q.status = 200 /\ reqs[i].status # 200) =>
             \A k \in 1..Len(q.outList) :
               \E d \in notes : d._id = q.outList[k].id /\ d.userId = q.token
        /\ (q.op = "delete" /\ q # reqs[i]) =>
             \A d \in notes : d.userId # q.token => d \in notes'
    ]_vars

\* B has asked to delete a note of A by its id and was answered; the note
\* is still there
C1_Witness ==
  \E i \in Slots :
    /\ reqs[i].pc = "done" /\ reqs[i].op = "delete" /\ reqs[i].token = "B"
    /\ reqs[i].status = 200
    /\ \E d \in notes : d._id = reqs[i].body.id /\ d.userId = "A"

\* C2: a save without id and with a non-null localId that is not denied
\* succeeds and leaves exactly one record of the owner with that localId,
\* whose id it returns; when such a record existed before (the second call),
\* it is that record, and no record is added.
C2_IdempotentUpsert ==
  [][ Served =>
        LET q == reqs'[1]
            before == MatchesLocalId(notes, q)
            after == MatchesLocalId(notes', q)
        IN (/\ q.op = "save" /\ SignedIn(q) /\ ~IdGiven(q.body)
            /\ LocalIdOf(q) # "" /\ q.status # 403) =>
             /\ q.status = 200
             /\ Cardinality(after) = 1
             /\ \A d \in after : d._id = q.outId
             /\ \A d \in before : d._id = q.outId
             /\ before # {} => Cardinality(notes') = Cardinality(notes)
    ]_vars

\* the second call: the save found the record by its localId and updated it
C2_Witness ==
  /\ Last.pc = "done" /\ Last.op = "save" /\ ~IdGiven(Last.body)
  /\ LocalIdOf(Last) # "" /\ Last.status = 200 /\ Last.target # {}
  /\ Cardinality(MatchesLocalId(notes, Last)) = 1

\* C3: no owner has two records with one non-null localId, and the save
\* logic sees to that itself: it never hands the store a write that the
\* unique index has to reject for a non-null localId.
C3_LocalIdUniqueBySaveLogic ==
  /\ \A d \in notes, e \in notes :
       (d.userId = e.userId /\ d.localId = e.localId /\ d.localId # "")
         => d = e
  /\ \A i \in Slots :
       reqs[i].thrown = "E11000" => reqs[i].note.localId = ""

\* C4: a save changes no record of another owner, every record keeps the
\* userId it was stored with, and a record a save inserts belongs to the
\* caller.
C4_SaveOwnerScoped ==
  [][ /\ \A d \in notes, e \in notes' : d._id = e._id => d.userId = e.userId
      /\ (Served /\ reqs'[1].op = "save") =>
           LET q == reqs'[1] IN
           /\ \A d \in notes : d.userId # q.token => d \in notes'
           /\ \A e \in notes' :
                (\A d \in notes : d._id # e._id) => e.userId = q.token
    ]_vars

\* B has sent a save with the id of a record of A and was told 404
C4_Witness ==
  /\ Last.pc = "done" /\ Last.op = "save" /\ Last.token = "B"
  /\ IdGiven(Last.body) /\ Last.status = 404
  /\ \E d \in notes : d._id = Last.body.id /\ d.userId = "A"

\* C5: a save answered 403 has changed neither collection.
C5_DenialChangesNothing ==
  [][ (Served /\ reqs'[1].status = 403) => (notes' = notes /\ users' = users)
    ]_vars

\* a save has been denied for storage while the owner holds notes
C5_Witness ==
  /\ Last.pc = "done" /\ Last.op = "save" /\ Last.status = 403
  /\ Last.code = "STORAGE_LIMIT_EXCEEDED"
  /\ OwnNotes(notes, Last) # {}

\* C6: a free-tier save is answered with the first violated check in the
\* order chars, count, storage (the count and storage checks standing behind
\* the resolution of a supplied id), with no denial when none is violated.
C6_CheckOrder ==
  [][ Served =>
        LET q == reqs'[1]
            idFails == /\ IdGiven(q.body)
                       /\ \/ ~ObjectIdIsValid(q.body.id)
                          \/ UpdateTarget(notes, q) = {}
        IN (q.op = "save" /\ SignedIn(q) /\ OnFreePlan(users, q)) =>
             q.code =
               IF ViolatesChars(q) THEN "NOTE_CHAR_LIMIT_EXCEEDED"
               ELSE IF idFails THEN ""
               ELSE IF ViolatesCount(notes, q) THEN "NOTE_COUNT_LIMIT_EXCEEDED"
               ELSE IF ViolatesStorage(notes, q) THEN "STORAGE_LIMIT_EXCEEDED"
               ELSE ""
    ]_vars

\* a new note that violates the count and the storage limit was denied
\* for the count
C6_Witness ==
  /\ Last.pc = "done" /\ Last.op = "save"
  /\ Last.code = "NOTE_COUNT_LIMIT_EXCEEDED"
  /\ ViolatesCount(notes, Last) /\ ViolatesStorage(notes, Last)

\* C7: a save of an owner whose stored plan is pro is never answered 403.
C7_ProNeverDenied ==
  \A i \in Slots :
    (/\ reqs[i].pc = "done" /\ reqs[i].op = "save" /\ SignedIn(reqs[i])
     /\ users[reqs[i].token] = "pro") => reqs[i].status # 403

\* a pro owner has saved a note over the free char limit while holding more
\* notes than the free count limit
C7_Witness ==
  /\ Last.pc = "done" /\ Last.op = "save" /\ Last.status = 200
  /\ users[Last.token] = "pro" /\ ViolatesChars(Last)
  /\ Cardinality(OwnNotes(notes, Last)) > FREE_MAX_NOTES

\* C8: on the free plan content of exactly maxCharsPerNote characters is not
\* denied for its length, content of one character more is.
C8_CharBoundary ==
  \A i \in Slots :
    LET q == reqs[i] IN
    (q.pc = "done" /\ q.op = "save" /\ SignedIn(q) /\ OnFreePlan(users, q)) =>
      /\ ContentOf(q).chars = FREE_MAX_CHARS_PER_NOTE
           => q.code # "NOTE_CHAR_LIMIT_EXCEEDED"
      /\ ContentOf(q).chars = FREE_MAX_CHARS_PER_NOTE + 1
           => (q.status = 403 /\ q.code = "NOTE_CHAR_LIMIT_EXCEEDED")

\* a free-tier note of exactly maxCharsPerNote characters has been stored
C8_Witness ==
  /\ Last.pc = "done" /\ Last.op = "save" /\ Last.status = 200
  /\ OnFreePlan(users, Last)
  /\ ContentOf(Last).chars = FREE_MAX_CHARS_PER_NOTE
  /\ \E d \in notes : d._id = Last.outId /\ d.content = ContentOf(Last)

\* C9: a save whose id is malformed or names no record of the caller is
\* answered with the id error, 400 or 404, and so never with a denial.
C9_IdErrorBeforeQuota ==
  \A i \in Slots :
    LET q == reqs[i] IN
    (/\ q.pc = "done" /\ q.op = "save" /\ SignedIn(q) /\ IdGiven(q.body)
     /\ MatchesId(notes, q) = {}) => q.status \in {400, 404}

\* C10: a save with a well-formed id that names no record of the caller
\* (its content passing the char-limit check) is answered 404 and changes no
\* record, whatever localId it carries.
C10_NoFallbackToLocalId ==
  [][ Served =>
        LET q == reqs'[1] IN
        (/\ q.op = "save" /\ SignedIn(q) /\ IdGiven(q.body)
         /\ ObjectIdIsValid(q.body.id) /\ MatchesId(notes, q) = {}
         /\ ~(OnFreePlan(users, q) /\ ViolatesChars(q))) =>
          (q.status = 404 /\ notes' = notes)
    ]_vars

\* C11: a save with a malformed id that is answered 400 has issued no
\* operation on the notes collection, whether or not it carries a localId.
C11_MalformedIdBeforeStorage ==
  \A i \in Slots :
    LET q == reqs[i] IN
    (/\ q.pc = "done" /\ q.op = "save" /\ SignedIn(q) /\ IdGiven(q.body)
     /\ ~ObjectIdIsValid(q.body.id) /\ q.status = 400) => q.calls = 0

\* the decision on a save was Allow: it was answered neither with an id
\* error nor with a denial, the handler went on to its write
Allowed(q) ==
  q.op = "save" /\ SignedIn(q) /\ q.status \notin {400, 403, 404}

\* what an allowed save has to leave behind: the target with its mutable
\* fields replaced and its _id kept, else one new record with a fresh _id;
\* every other record as it was; the id of that record in the response
SaveEffect(q, N, M) ==
  LET note == normalizeNoteDoc(q.body, q.token, q.now) IN
  /\ q.status = 200
  /\ IF q.target # {}
     THEN /\ \A t \in q.target : q.outId = t._id
          /\ M = (N \ q.target) \cup {WithId(note, q.outId)}
          /\ Cardinality(OwnNotes(M, q)) = Cardinality(OwnNotes(N, q))
     ELSE /\ \A d \in N : d._id # q.outId
          /\ M = N \cup {WithId(note, q.outId)}
          /\ Cardinality(M) = Cardinality(N) + 1

\* C12: an allowed save replaces exactly its resolved target, keeping the
\* id and the owner's record count and returning the target's id, or else
\* inserts exactly one record under an unused id and returns that id; no
\* other record changes.
C12_AllowedSaveEffect ==
  [][ (Served /\ Allowed(reqs'[1])) => SaveEffect(reqs'[1], notes, notes')
    ]_vars

OverCount(N, o) == Cardinality(FindByUser(N, o)) > FREE_MAX_NOTES
OverStorage(N, o) == SumBytes(FindByUser(N, o)) > FREE_MAX_STORAGE_BYTES

\* the count and storage checks pass on the notes the request has read
PassedOnSeen(q) ==
  /\ q.seen.currentCount + (IF q.target = {} THEN 1 ELSE 0) <= FREE_MAX_NOTES
  /\ q.seen.currentBytes - TargetBytes(q.target) + estimateNoteBytes(q.note)
       <= FREE_MAX_STORAGE_BYTES

\* what the request has read is no longer what the store holds
Stale(q, N) ==
  q.seen # Usage(FindByUser(N, q.user)) \/ ~(q.target \subseteq N)

\* C13: the quota check and the write are separate steps. Every write of a
\* free-tier save follows a check that passed on the note set the request
\* read, and a write takes its owner over maxNotes or over maxStorageBytes
\* only when that note set has changed between the read and the write; two
\* overlapping saves of new notes can so both pass and both commit.
C13_QuotaRace ==
  [][ \A i \in Slots :
        LET q == reqs[i] IN
        (q.pc = "write" /\ reqs'[i].pc = "done" /\ q.plan # "pro") =>
          /\ PassedOnSeen(q)
          /\ (OverCount(notes', q.user) /\ ~OverCount(notes, q.user))
               => Stale(q, notes)
          /\ (OverStorage(notes', q.user) /\ ~OverStorage(notes, q.user))
               => Stale(q, notes)
    ]_vars

\* two saves of new notes by A have both been answered 200, each with the
\* id of the note it inserted, and A now holds more than maxNotes notes, of
\* more than maxStorageBytes
C13_Witness ==
  /\ \A i \in {1, 2} :
       /\ reqs[i].pc = "done" /\ reqs[i].op = "save" /\ reqs[i].token = "A"
       /\ reqs[i].status = 200 /\ reqs[i].target = {}
       /\ \E d \in notes : d._id = reqs[i].outId
  /\ reqs[1].outId # reqs[2].outId
  /\ OverCount(notes, "A") /\ OverStorage(notes, "A")

\* The attempt sequence of a candidate list: model by model in the order of
\* the list, each model at the API versions in their fixed order.
RankedPairs(models) ==
  [k \in 1..(Len(models) * Len(GEMINI_API_VERSIONS)) |->
     << models[((k - 1) \div Len(GEMINI_API_VERSIONS)) + 1],
        GEMINI_API_VERSIONS[((k - 1) % Len(GEMINI_API_VERSIONS)) + 1] >>]

\* a candidate list in ranked order: no model scores above one before it
Ranked(models) ==
  \A a \in 1..Len(models), b \in 1..Len(models) :
    a < b => rankGeminiModel(models[a]) >= rankGeminiModel(models[b])

Answered(q) == q.pc = "done" /\ q.status = 200

\* C14: a chat request that was answered with a reply after k failed
\* attempts has issued exactly k + 1 generation requests, the first k + 1
\* pairs of the ranked attempt sequence in order, and its reply is the
\* sanitized text of the last of them.
C14_FailoverCountAndOrder ==
  \A i \in Slots :
    LET q == chats[i] IN
    Answered(q) =>
      /\ Ranked(q.models)
      /\ Len(q.attempts) = q.failed + 1
      /\ q.attempts = SubSeq(RankedPairs(q.models), 1, q.failed + 1)
      /\ q.raw # <<>>
      /\ q.reply = sanitizeAiReply(q.raw)

\* the first two pairs failed, the third answered "hello": three attempts,
\* the reply "hello"
C14_Witness ==
  /\ Answered(chats[1]) /\ chats[1].failed = 2
  /\ Len(chats[1].attempts) = 3
  /\ chats[1].raw = <<"hello">> /\ chats[1].reply = <<"hello">>
  /\ chats[1].attempts[3] = <<chats[1].models[2], "v1beta">>

\* C15: the step in which a generation attempt comes back with non-empty
\* text ends the request with that reply; it issues no further attempt, and
\* a request that has ended issues none either.
C15_StopOnFirstSuccess ==
  [][ \A i \in Slots :
        /\ (chats'[i].status = 200 /\ chats[i].status # 200) =>
             /\ chats'[i].pc = "done"
             /\ chats'[i].attempts = chats[i].attempts
        /\ chats[i].pc = "done" =>
             (chats'[i] = chats[i] \/ chats'[i] = NoChat)
    ]_vars

\* a request was answered by its first attempt, the other candidate pairs
\* left untried
C15_Witness ==
  /\ Answered(chats[1]) /\ Len(chats[1].attempts) = 1
  /\ Len(RankedPairs(chats[1].models)) > 1

\* C16: when every pair of the candidate list has failed, callGemini throws
\* the error of the last pair, and /ai/chat answers 503 with the fixed
\* message, which holds neither the status nor the body text of any
\* provider response.
C16_Exhaustion ==
  \A i \in Slots :
    LET q == chats[i]
        pairs == RankedPairs(q.models)
    IN (q.pc = "done" /\ q.models # <<>> /\ q.failed = Len(pairs)) =>
         /\ q.attempts = pairs
         /\ q.thrown = q.lastError
         /\ q.thrown.attempt = Len(pairs)
         /\ q.thrown.pair = pairs[Len(pairs)]
         /\ q.status = 503
         /\ q.error = AI_UNAVAILABLE
         /\ \A r \in GenerationResponses \cup ListResponses :
              r.kind = "status" => q.error # r.body

\* every pair failed, the last with a 429 and a body text
C16_Witness ==
  /\ chats[1].pc = "done" /\ chats[1].status = 503
  /\ chats[1].failed = Len(RankedPairs(chats[1].models))
  /\ chats[1].failed >= 2 * Len(configuredModels)
  /\ chats[1].thrown.kind = "failed" /\ chats[1].thrown.status = 429
  /\ chats[1].thrown.body = "quota"

\* callGemini enters fetchAvailableGeminiModels in this step
EntersDiscovery(i) ==
  chats[i].pc = "idle" /\ chats'[i].pc \in {"discover", "generate"}

\* the request of slot i takes the cached list and asks for no listing
Reuses(i) ==
  /\ chats'[i].pc = "generate" /\ chats'[i].lists = 0
  /\ chats'[i].models = CandidateModels(cachedGeminiModels)

\* the cache is assigned only from a listing whose filtered list is not
\* empty, and a cache that holds models is never emptied
WrittenOnlyOnNonEmptySuccess ==
  /\ (cachedGeminiModels' # cachedGeminiModels
        \/ geminiModelsCachedAt' # geminiModelsCachedAt) =>
       /\ cachedGeminiModels' # <<>>
       /\ \E i \in Slots, r \in ListResponses :
            /\ chats[i].pc = "discover" /\ r.kind = "ok"
            /\ AvailableModels(r.models) # <<>>
            /\ cachedGeminiModels' = Unique(AvailableModels(r.models))
            /\ geminiModelsCachedAt' = chats[i].now
  /\ cachedGeminiModels # <<>> => cachedGeminiModels' # <<>>

\* C17 as stated, t being the time at which the cache was populated: a
\* request that begins before t + TTL reuses the cached list and asks for
\* no listing, and the cache is written only on a non-empty success.
C17_ReuseSincePopulated ==
  [][ /\ \A i \in Slots :
           (/\ EntersDiscovery(i) /\ cachedGeminiModels # <<>>
            /\ dateNow < populatedAt + GEMINI_MODEL_CACHE_TTL_MS) => Reuses(i)
      /\ WrittenOnlyOnNonEmptySuccess
    ]_vars

\* C17, amended: t is geminiModelsCachedAt, the clock value the populating
\* call of fetchAvailableGeminiModels read when it began. A request that
\* begins while the cache holds models and dateNow < t + TTL reuses the
\* cached list and asks for no listing, then or later; the cache is written
\* only by a listing that yields a non-empty filtered list, and is never
\* emptied or replaced by a failed or empty one.
C17_DiscoveryCache ==
  [][ /\ \A i \in Slots :
           /\ (/\ EntersDiscovery(i) /\ cachedGeminiModels # <<>>
               /\ dateNow < geminiModelsCachedAt + GEMINI_MODEL_CACHE_TTL_MS)
                => Reuses(i)
           /\ chats[i].pc = "generate" => chats'[i].lists = chats[i].lists
      /\ WrittenOnlyOnNonEmptySuccess
    ]_vars

\* a request that began two thirds of the TTL after the stamp of the cache
\* is at its first attempt, with the cached models among its candidates and
\* no listing asked for
C17_Witness ==
  \E i \in Slots :
    /\ chats[i].pc = "generate" /\ chats[i].lists = 0
    /\ Len(chats[i].attempts) = 1
    /\ cachedGeminiModels # <<>>
    /\ dateNow = geminiModelsCachedAt + 2 * TickMs
    /\ chats[i].models = CandidateModels(cachedGeminiModels)
    /\ Len(chats[i].models) > Len(configuredModels)

\* a delete request of a signed-in caller has been answered
Deleted(q) == q.pc = "done" /\ q.op = "delete" /\ SignedIn(q)

\* C18: a delete whose well-formed id matches no record of the caller (it
\* never existed, was deleted before, or belongs to another owner) is
\* answered 200 and changes no record; and deleting once more what a delete
\* has left changes nothing.
C18_IdempotentDelete ==
  [][ (Served /\ Deleted(reqs'[1]) /\ ObjectIdIsValid(reqs'[1].body.id)) =>
        LET q == reqs'[1] IN
        /\ q.status = 200 /\ q.thrown = ""
        /\ MatchesId(notes, q) = {} => notes' = notes
        /\ MatchesId(notes', q) = {}
        /\ DeleteOne(notes', q.body.id, q.token) = notes'
    ]_vars

\* A has asked to delete an id that was never handed out, or that of a note
\* deleted before, while holding notes, and was answered 200
C18_Witness ==
  /\ Deleted(Last) /\ Last.token = "A" /\ Last.status = 200
  /\ ObjectIdIsValid(Last.body.id)
  /\ \A d \in notes : d._id # Last.body.id
  /\ OwnNotes(notes, Last) # {}

\* C19 as stated: every DELETE /notes/:id of a signed-in caller is answered
\* {ok: true}, whatever the id.
C19_DeleteAlwaysOk ==
  \A i \in Slots : Deleted(reqs[i]) => reqs[i].status = 200

\* C19, amended: DELETE /notes/:id of a signed-in caller is answered
\* {ok: true} for every id that is a well-formed ObjectId, whether or not it
\* names a record; for an id that is not, it is answered 400 and no
\* operation on the notes collection is issued.
C19_DeleteOkUnlessMalformed ==
  \A i \in Slots :
    LET q == reqs[i] IN
    Deleted(q) =>
      IF ObjectIdIsValid(q.body.id) THEN q.status = 200 /\ q.calls = 1
      ELSE q.status = 400 /\ q.calls = 0

\* a delete with a malformed id has been answered 400 while the caller
\* holds notes
C19_Witness ==
  /\ Deleted(Last) /\ ~ObjectIdIsValid(Last.body.id) /\ Last.status = 400
  /\ OwnNotes(notes, Last) # {}

\* a is not behind b in the descending order of (lastModified, updatedAt),
\* updatedAt compared as the strings they are
NotBehind(a, b) ==
  \/ a.lastModified > b.lastModified
  \/ /\ a.lastModified = b.lastModified
     /\ StringRank(a.updatedAt) >= StringRank(b.updatedAt)

\* C20: the list a caller is given holds exactly the caller's records, each
\* once and as stored, in descending order of lastModified, records of equal
\* lastModified in descending order of updatedAt.
C20_ListOrdering ==
  \A i \in Slots :
    LET q == reqs[i]
        own == OwnNotes(notes, q)
    IN (q.pc = "done" /\ q.op = "list" /\ SignedIn(q)) =>
         /\ q.status = 200
         /\ Len(q.outList) = Cardinality(own)
         /\ \A d \in own : \E k \in 1..Len(q.outList) :
              /\ q.outList[k].id = d._id
              /\ q.outList[k].lastModified = d.lastModified
              /\ q.outList[k].updatedAt = d.updatedAt
         /\ \A a \in 1..Len(q.outList), b \in 1..Len(q.outList) :
              a < b => NotBehind(q.outList[a], q.outList[b])

\* a list of three notes: the first two of one lastModified and different
\* updatedAt, the later updatedAt first though that note has the higher id;
\* the third of an earlier lastModified
C20_Witness ==
  /\ Last.pc = "done" /\ Last.op = "list" /\ Len(Last.outList) = 3
  /\ Last.outList[1].lastModified = Last.outList[2].lastModified
  /\ StringRank(Last.outList[1].updatedAt)
       > StringRank(Last.outList[2].updatedAt)
  /\ Last.outList[1].id > Last.outList[2].id
  /\ Last.outList[2].lastModified > Last.outList[3].lastModified

\* this step is the arrival of the request of slot i
Arrives(i) == reqs[i].pc = "idle" /\ reqs'[i].pc # "idle"

\* the request was answered by a middleware: it has resolved no identity
\* and issued no operation on the notes collection
StoppedAtTheGate(q) == q.pc = "done" /\ q.user = "" /\ q.calls = 0

\* C21: a request that arrives while db is unset, at whatever route behind
\* ensureDb and with whatever token, is answered 503 in the step of its
\* arrival, before auth and before its handler, and the step changes
\* neither collection; the answered request is not taken up again: as long
\* as it is there it stays as it is and neither collection changes, also
\* once db has been set.
C21_FailFast ==
  [][ \A i \in Slots :
        /\ (Arrives(i) /\ ~db) =>
             /\ StoppedAtTheGate(reqs'[i]) /\ reqs'[i].status = 503
             /\ users' = users /\ notes' = notes /\ nextId' = nextId
        /\ reqs[i].status = 503 =>
             /\ reqs'[i] \in {reqs[i], Idle}
             /\ users' = users /\ notes' = notes /\ nextId' = nextId
    ]_vars

\* a save was answered 503, and db has been set while the answer stood:
\* the note was not stored
C21_Witness ==
  /\ reqs[1].op = "save" /\ reqs[1].token = "A" /\ reqs[1].status = 503
  /\ db /\ notes = {}

\* C22: once the process listens with db unset the interval is installed
\* (the attempts go on until one succeeds); if from some time on the store
\* stays reachable, then from some time on db is set and the interval is
\* cleared; db, once set, stays set, and no call of connectMongo goes on to
\* mongo.connect() once db is set.
C22_Reconnection ==
  /\ [](listening /\ ~db => reconnectTimer)
  /\ (<>[]reachable => <>[](db /\ ~reconnectTimer))
  /\ [][ db => /\ db'
               /\ \A c \in Callers :
                    connecting'[c] = "connect" => connecting[c] = "connect"
       ]_vars

\* the first call failed, callbacks ran, db is set and the interval cleared
C22_Witness ==
  /\ db /\ listening /\ ~reconnectTimer
  /\ retries = MaxRetries
  /\ \A c \in Callers : connecting[c] = "idle"

\* C23: db is assigned at most once and at most one client is connected.
C23_EstablishedOnce == assigned <= 1 /\ clients <= 1

\* C24: a plan that is pro stays pro, and the plan of an existing user
\* record changes only in the step in which the updateOne of an upgrade
\* request of that user takes effect.
C24_PlanPersistence ==
  [][ \A o \in Owners :
        /\ users[o] = "pro" => users'[o] = "pro"
        /\ (users[o] # "" /\ users'[o] # users[o]) =>
             /\ users'[o] = "pro"
             /\ \E i \in Slots :
                  /\ reqs[i].op = "upgrade" /\ reqs[i].pc = "upgrade"
                  /\ reqs[i].user = o /\ reqs'[i].pc = "upgraded"
    ]_vars

\* A is pro and has logged in since: the login answered with plan pro
C24_Witness ==
  /\ users["A"] = "pro"
  /\ reqs[1].op = "login" /\ reqs[1].pc = "done" /\ reqs[1].status = 200
  /\ reqs[1].plan = "pro"

\* the routes with auth in their chain
AuthRoutes == {"status", "upgrade", "save", "list", "delete"}

\* C25 as stated: a request to a route with auth whose token is absent or
\* fails verification is answered 401.
C25_AuthGateAlways401 ==
  \A i \in Slots :
    (reqs[i].op \in AuthRoutes /\ reqs[i].token \notin Owners) =>
      StoppedAtTheGate(reqs[i]) /\ reqs[i].status = 401

\* C25: a request to a route with auth that arrives while db is set, with
\* no token or with one that fails verification, is answered 401 in the
\* step of its arrival, its handler not entered and neither collection
\* changed (while db is unset ensureDb answers 503 before auth is reached);
\* a verified subject without user record goes on with plan free.
C25_AuthGate ==
  [][ \A i \in Slots :
        /\ ( /\ Arrives(i) /\ reqs'[i].op \in AuthRoutes
             /\ reqs'[i].token \notin Owners ) =>
             /\ StoppedAtTheGate(reqs'[i])
             /\ reqs'[i].status = IF db THEN 401 ELSE 503
             /\ users' = users /\ notes' = notes /\ nextId' = nextId
        /\ ( /\ reqs[i].pc = "plan" /\ reqs'[i].pc # "plan"
             /\ users[reqs[i].user] = "" ) =>
             reqs'[i].plan = "free"
    ]_vars

\* a save under a token that fails verification was answered 401 while db
\* was set
C25_Witness ==
  /\ reqs[1].op = "save" /\ reqs[1].token = "bad" /\ reqs[1].status = 401
  /\ db /\ notes = {}

\* the piece consists of letters and digits, of whatever script
IsLetters(piece) == IsWordChars(piece) \/ piece \in NonAsciiLetterPieces

\* the name at position k is a word of its own, not a part of a longer one
WholeWord(text, k) ==
  /\ k = 1 \/ ~IsLetters(text[k - 1])
  /\ k = Len(text) \/ ~IsLetters(text[k + 1])

\* C26: the reply of a request answered 200 is the raw reply with every
\* provider name that is a word of its own replaced by "Chimera Core", and
\* with every other piece, the names inside longer words among them, as it
\* was.
C26_Sanitization ==
  \A i \in Slots :
    LET q == chats[i] IN
    q.status = 200 =>
      /\ Len(q.reply) = Len(q.raw)
      /\ \A k \in 1..Len(q.raw) :
           q.reply[k] = IF IsName(q.raw[k]) /\ WholeWord(q.raw, k)
                        THEN "Chimera Core"
                        ELSE q.raw[k]

Elements(s) == {s[k] : k \in 1..Len(s)}
NoRepeat(s) == \A j, k \in 1..Len(s) : s[j] = s[k] => j = k

\* C27: the models a request tries are configured or discovered models,
\* all of them when these are at most 10 and else 10 of them that no
\* left-out model outranks; no name carries the "models/" prefix, none
\* comes twice, the rank scores never increase along the list, and no
\* (model, version) pair is attempted twice.
C27_CandidateList ==
  \A i \in Slots :
    LET q == chats[i]
        union == Elements(configuredModels) \cup Elements(cachedGeminiModels)
        n == Len(q.models)
    IN q.attempts # <<>> =>
         /\ Elements(q.models) \subseteq union
         /\ n = IF Cardinality(union) < 10 THEN Cardinality(union) ELSE 10
         /\ \A m \in union \ Elements(q.models) : \A k \in 1..n :
              rankGeminiModel(m) <= rankGeminiModel(q.models[k])
         /\ \A k \in 1..n : Head(q.models[k]) # "models/"
         /\ NoRepeat(q.models)
         /\ \A j, k \in 1..n :
              j < k => rankGeminiModel(q.models[j]) >= rankGeminiModel(q.models[k])
         /\ NoRepeat(q.attempts)

\* twelve models were configured or discovered; the request tried ten of
\* them at both versions and failed
C27_Witness ==
  /\ Cardinality(Elements(configuredModels) \cup Elements(cachedGeminiModels))
       = 12
  /\ Len(chats[1].models) = 10
  /\ Len(chats[1].attempts) = 20
  /\ chats[1].status = 503

\* C28: the first attempt of a request is at v1beta; the step in which an
\* attempt comes back without a usable reply (a response that is not ok, an
\* empty reply, a transport error) records the error of that attempt as
\* the last error and, the clock not having moved, issues the next attempt:
\* the same model at v1 after v1beta, the next model of the list at v1beta
\* after v1, a pair that was not attempted before; after the last pair
\* there is no further attempt. A request is answered 200 only with a
\* reply that is not empty.
C28_AttemptStep ==
  [][ \A i \in Slots :
        LET q == chats[i]
            r == chats'[i]
            n == Len(q.attempts)
        IN /\ (q.attempts = <<>> /\ r.attempts # <<>>) =>
                r.attempts = << <<r.models[1], "v1beta">> >>
           /\ (q.pc = "generate" /\ r # q /\ r.status # 200) =>
                /\ r.failed = q.failed + 1
                /\ r.lastError.kind \in {"failed", "empty", "transport"}
                /\ r.lastError.attempt = n
                /\ r.lastError.pair = q.attempts[n]
                /\ dateNow' = dateNow
                /\ IF q.attempts[n][2] = "v1beta"
                   THEN r.attempts =
                          Append(q.attempts, <<q.attempts[n][1], "v1">>)
                   ELSE IF q.m < Len(q.models)
                   THEN r.attempts =
                          Append(q.attempts, <<q.models[q.m + 1], "v1beta">>)
                   ELSE r.attempts = q.attempts /\ r.pc = "done"
                /\ r.pc = "generate" =>
                     \A k \in 1..n : q.attempts[k] # r.attempts[n + 1]
           /\ (q.pc = "generate" /\ r.status = 200) => r.raw # <<>>
    ]_vars

\* three attempts have failed, the last with an empty reply, and the
\* request is at its fourth attempt, the second model at v1
C28_Witness ==
  /\ chats[1].pc = "generate"
  /\ Len(chats[1].attempts) = 4
  /\ chats[1].failed = 3
  /\ chats[1].lastError.kind = "empty"
  /\ chats[1].lastError.pair = chats[1].attempts[3]
  /\ chats[1].attempts[4] = <<chats[1].models[2], "v1">>

\* the entries of the history the window of the last 12 holds and whose
\* text is not blank, by their positions
Kept(history) ==
  {k \in 1..Len(history) :
     k > Len(history) - 12 /\ TrimString(history[k].text) # ""}

\* C29: the contents of a request hold, for every one of the last 12
\* history entries whose text is not blank, in the order of the history,
\* its trimmed text with role "model" for an assistant entry and "user"
\* for any other, and after them the message with role "user"; they hold
\* nothing else and so at most 13 elements, and every generation request
\* has carried these contents.
C29_HistoryWindow ==
  \A i \in Slots :
    LET q == chats[i]
        c == q.contents
        h == q.history
    IN q.attempts # <<>> =>
         /\ Len(c) = Cardinality(Kept(h)) + 1
         /\ Len(c) <= 13
         /\ c[Len(c)] = [role |-> "user", text |-> q.message]
         /\ \A k \in Kept(h) :
              c[Cardinality({j \in Kept(h) : j <= k})] =
                [role |-> IF h[k].role = "assistant" THEN "model" ELSE "user",
                 text |-> TrimString(h[k].text)]
         /\ q.sent = {c}

\* a request with a history of more than 12 turns has made two attempts;
\* its contents are the last 12 turns and the message
C29_Witness ==
  /\ Len(chats[1].history) > 12
  /\ Len(chats[1].attempts) >= 2
  /\ Len(chats[1].contents) = 13
  /\ chats[1].contents[1].text = chats[1].history[Len(chats[1].history) - 11].text

\* the owner of the request is on the free plan and holds exactly maxNotes
\* records
AtNoteLimit(U, N, q) ==
  /\ q.op = "save" /\ SignedIn(q) /\ OnFreePlan(U, q)
  /\ Cardinality(OwnNotes(N, q)) = FREE_MAX_NOTES

\* the save names no record of its owner and carries no id that would have
\* to name one: it asks for a new record
WouldCreate(N, q) == ~IdGiven(q.body) /\ UpdateTarget(N, q) = {}

\* C30 as stated: at exactly maxNotes records a save that resolves to one of
\* them is never denied for the count, and a save that would create a
\* record is denied with NOTE_COUNT_LIMIT_EXCEEDED.
C30_CountOnlyNew ==
  [][ Served =>
        LET q == reqs'[1] IN
        AtNoteLimit(users, notes, q) =>
          /\ UpdateTarget(notes, q) # {} =>
               q.code # "NOTE_COUNT_LIMIT_EXCEEDED"
          /\ WouldCreate(notes, q) =>
               q.status = 403 /\ q.code = "NOTE_COUNT_LIMIT_EXCEEDED"
    ]_vars

\* C30: at exactly maxNotes records a save that resolves to one of them is
\* never denied for the count, and a save that would create a record is
\* denied and creates none: with NOTE_CHAR_LIMIT_EXCEEDED when its content
\* is over the char limit, which is checked first, and with
\* NOTE_COUNT_LIMIT_EXCEEDED otherwise.
C30_CountCheck ==
  [][ Served =>
        LET q == reqs'[1] IN
        AtNoteLimit(users, notes, q) =>
          /\ UpdateTarget(notes, q) # {} =>
               q.code # "NOTE_COUNT_LIMIT_EXCEEDED"
          /\ WouldCreate(notes, q) =>
               /\ q.status = 403 /\ notes' = notes
               /\ q.code = IF ViolatesChars(q) THEN "NOTE_CHAR_LIMIT_EXCEEDED"
                           ELSE "NOTE_COUNT_LIMIT_EXCEEDED"
    ]_vars

\* a free-tier owner holding maxNotes records has updated one of them
C30_Witness ==
  /\ AtNoteLimit(users, notes, Last)
  /\ Last.pc = "done" /\ Last.status = 200 /\ Last.target # {}
  /\ \E d \in notes : d._id = Last.outId /\ d.userId = Last.token

\* storageBytesAfter, said over the store: the bytes of the caller's notes,
\* less those of the record the save replaces, plus those of the candidate
StorageBytesAfter(N, q) ==
  SumBytes(OwnNotes(N, q)) - SumBytes(UpdateTarget(N, q))
    + estimateNoteBytes(normalizeNoteDoc(q.body, q.token, q.now))

\* the save comes as far as the storage check: the char check, the
\* resolution of a supplied id and the count check all let it pass
ReachesStorageCheck(N, q) ==
  /\ ~ViolatesChars(q)
  /\ IdGiven(q.body) => ObjectIdIsValid(q.body.id) /\ UpdateTarget(N, q) # {}
  /\ ~ViolatesCount(N, q)

\* C31 as stated: a free-tier save is denied with STORAGE_LIMIT_EXCEEDED
\* exactly when storageBytesAfter is greater than maxStorageBytes.
C31_StorageDenialExactly ==
  [][ Served =>
        LET q == reqs'[1] IN
        (q.op = "save" /\ SignedIn(q) /\ OnFreePlan(users, q)) =>
          (q.code = "STORAGE_LIMIT_EXCEEDED"
             <=> StorageBytesAfter(notes, q) > FREE_MAX_STORAGE_BYTES)
    ]_vars

\* C31: a free-tier save that comes as far as the storage check is denied
\* with STORAGE_LIMIT_EXCEEDED, the store unchanged, exactly when the bytes
\* of the owner's notes, less the replaced record, plus the candidate are
\* more than maxStorageBytes, and is written when they are equal to it or
\* less; a save stopped by an earlier check is never denied for storage.
C31_StorageCheck ==
  [][ Served =>
        LET q == reqs'[1] IN
        (q.op = "save" /\ SignedIn(q) /\ OnFreePlan(users, q)) =>
          IF ReachesStorageCheck(notes, q)
          THEN IF StorageBytesAfter(notes, q) > FREE_MAX_STORAGE_BYTES
               THEN /\ q.status = 403 /\ q.code = "STORAGE_LIMIT_EXCEEDED"
                    /\ notes' = notes
               ELSE /\ q.code = ""
                    /\ q.thrown = "" =>
                         /\ q.status = 200
                         /\ SumBytes(OwnNotes(notes', q))
                              = StorageBytesAfter(notes, q)
          ELSE q.code # "STORAGE_LIMIT_EXCEEDED"
    ]_vars

\* a free-tier owner has replaced a record by a larger one and now holds
\* exactly maxStorageBytes
C31_Witness ==
  /\ Last.pc = "done" /\ Last.op = "save" /\ Last.status = 200
  /\ users[Last.token] # "pro"
  /\ Last.target # {}
  /\ \E t \in Last.target : estimateNoteBytes(t) < estimateNoteBytes(Last.note)
  /\ SumBytes(OwnNotes(notes, Last)) = FREE_MAX_STORAGE_BYTES

\* the notes of owner o are within the limits of the free plan
WithinFreeLimits(N, o) ==
  /\ Cardinality(FindByUser(N, o)) <= FREE_MAX_NOTES
  /\ \A d \in FindByUser(N, o) : countNoteChars(d) <= FREE_MAX_CHARS_PER_NOTE
  /\ SumBytes(FindByUser(N, o)) <= FREE_MAX_STORAGE_BYTES

\* C32: with the requests handled one at a time, the notes of an owner on
\* the free plan are at most maxNotes, each of at most maxCharsPerNote
\* characters, and together of at most maxStorageBytes bytes, after any
\* sequence of saves and deletes.
C32_SequentialQuota ==
  \A o \in Owners : users[o] # "pro" => WithinFreeLimits(notes, o)

\* a free-tier owner who has had a record deleted holds maxNotes records
\* again after a save, of exactly maxStorageBytes bytes
C32_Witness ==
  /\ Last.pc = "done" /\ Last.op = "save" /\ Last.status = 200
  /\ users[Last.token] # "pro"
  /\ nextId > FREE_MAX_NOTES + 1
  /\ Cardinality(OwnNotes(notes, Last)) = FREE_MAX_NOTES
  /\ SumBytes(OwnNotes(notes, Last)) = FREE_MAX_STORAGE_BYTES

\* the finished save in slot i asked for a first record under a localId:
\* no id, a localId, and no record found under it
FirstSave(i) ==
  /\ reqs[i].pc = "done" /\ reqs[i].op = "save" /\ SignedIn(reqs[i])
  /\ ~IdGiven(reqs[i].body) /\ LocalIdOf(reqs[i]) # ""
  /\ reqs[i].target = {}
  /\ reqs[i].code = ""

SaveAnswersOk(i) ==
  /\ reqs[i].pc \notin {"idle", "done"} /\ reqs'[i].pc = "done"
  /\ reqs'[i].op = "save" /\ reqs'[i].status = 200

\* C34: whenever a save responds {ok: true, id}, a record with that id
\* owned by the caller is in the store at that moment and holds the saved
\* fields, whatever requests are interleaved with the save.
C34_OkNamesStoredRecord ==
  [][ \A i \in Slots :
        SaveAnswersOk(i) =>
          \E d \in notes' :
            /\ d._id = reqs'[i].outId /\ d.userId = reqs'[i].token
            /\ d = WithId(reqs'[i].note, d._id)
    ]_vars

\* C35: a save that is answered 200 leaves every stored record that has a
\* localId with that localId: no successful save changes or clears it, an
\* update by id whose body omits localId included.
C35_LocalIdStable ==
  [][ (Served /\ reqs'[1].op = "save" /\ reqs'[1].status = 200) =>
        \A d \in notes :
          d.localId # "" =>
            \E e \in notes' : e._id = d._id /\ e.localId = d.localId
    ]_vars

\* the save is within the quota of its owner's plan
WithinQuota(U, N, q) ==
  OnFreePlan(U, q) =>
    ~ViolatesChars(q) /\ ~ViolatesCount(N, q) /\ ~ViolatesStorage(N, q)

\* C36: a save within quota that carries no localId and no id inserts a
\* record of its own and is answered 200 with the id of that record, however
\* many notes without localId its owner already holds.
C36_NullLocalIdsDoNotCollide ==
  [][ Served =>
        LET q == reqs'[1] IN
        (/\ q.op = "save" /\ SignedIn(q)
         /\ ~IdGiven(q.body) /\ LocalIdOf(q) = ""
         /\ WithinQuota(users, notes, q)) =>
          /\ q.status = 200
          /\ \E d \in notes' \ notes :
               /\ d._id = q.outId /\ d.userId = q.token
               /\ notes' = notes \cup {d}
    ]_vars

\* this step is the one in which auth of the save in slot j reads the plan:
\* users.findOne is answered and the handler is entered
AuthReadsPlan(j) ==
  /\ reqs[j].op = "save" /\ reqs[j].pc = "plan" /\ reqs'[j].pc # "plan"

\* an upgrade of owner o has been answered (the owners of SpecPlan start
\* without a plan and upgrade once)
UpgradeCompleted(o) ==
  /\ users[o] = "pro"
  /\ \A i \in Slots :
       ~(reqs[i].op = "upgrade" /\ reqs[i].user = o /\ reqs[i].pc = "upgraded")

\* the denial the count and storage checks of the free plan give the save,
\* on the notes in the store and the target the save has resolved
FreeDenial(N, q) ==
  IF Cardinality(FindByUser(N, q.user)) + (IF q.target = {} THEN 1 ELSE 0)
       > FREE_MAX_NOTES
  THEN "NOTE_COUNT_LIMIT_EXCEEDED"
  ELSE IF SumBytes(FindByUser(N, q.user)) - TargetBytes(q.target)
            + estimateNoteBytes(q.note) > FREE_MAX_STORAGE_BYTES
  THEN "STORAGE_LIMIT_EXCEEDED"
  ELSE ""

\* A save is checked by the plan its auth step has read: with plan pro it
\* is never denied, with plan free it is checked against the free limits,
\* whatever the users collection holds by then.
CheckedByPlanRead ==
  /\ [](\A j \in Slots :
          (reqs[j].op = "save" /\ reqs[j].plan = "pro") =>
            reqs[j].status # 403 /\ reqs[j].code = "")
  /\ [][ \A j \in Slots :
           /\ (AuthReadsPlan(j) /\ reqs'[j].plan = "free") =>
                (ViolatesChars(reqs[j]) <=>
                   reqs'[j].code = "NOTE_CHAR_LIMIT_EXCEEDED")
           /\ (reqs[j].pc = "findAll" /\ reqs'[j].pc # "findAll") =>
                /\ reqs[j].plan = "free"
                /\ reqs'[j].code = FreeDenial(notes, reqs[j])
                /\ reqs'[j].status = IF reqs'[j].code = "" THEN 0 ELSE 403
       ]_vars

\* C37 as stated: a save whose auth step runs after an upgrade of its owner
\* has completed is resolved with plan pro and is never quota-denied; a
\* save whose auth step ran before the upgrade completed is resolved with
\* plan free and checked against the free limits.
C37_UpgradeAtCompletion ==
  /\ [][ \A j \in Slots :
           AuthReadsPlan(j) =>
             reqs'[j].plan =
               IF UpgradeCompleted(reqs[j].user) THEN "pro" ELSE "free"
       ]_vars
  /\ CheckedByPlanRead

\* C37: once the updateOne of an upgrade has taken effect, and so after the
\* upgrade has completed, every save of that owner whose auth step reads the
\* plan is resolved with plan pro and is never quota-denied; a save whose
\* auth step read the plan before that is resolved with plan free and is
\* checked against the free limits, also when its checks run after the
\* upgrade.
C37_UpgradeAtWrite ==
  /\ [][ \A j \in Slots :
           AuthReadsPlan(j) =>
             reqs'[j].plan =
               IF users[reqs[j].user] = "pro" THEN "pro" ELSE "free"
       ]_vars
  /\ [](\A i \in Slots :
          (reqs[i].op = "upgrade" /\ reqs[i].pc = "done"
           /\ reqs[i].status = 200) => UpgradeCompleted(reqs[i].user))
  /\ [][ \A o \in Owners : UpgradeCompleted(o) => UpgradeCompleted(o)' ]_vars
  /\ CheckedByPlanRead

\* the upgrade of A has been answered while a save of A that had read plan
\* free stands before its quota check, A holding maxNotes notes: the save
\* is about to be denied for the count
C37_Witness ==
  \E i, j \in Slots :
    /\ reqs[i].op = "upgrade" /\ reqs[i].pc = "done" /\ reqs[i].status = 200
    /\ reqs[j].op = "save" /\ reqs[j].user = reqs[i].user
    /\ reqs[j].pc = "findAll" /\ reqs[j].plan = "free"
    /\ users[reqs[j].user] = "pro"
    /\ FreeDenial(notes, reqs[j]) = "NOTE_COUNT_LIMIT_EXCEEDED"

\* in this step fetchAvailableGeminiModels of the request in slot i returns
\* at its end: no listing has given a usable model
DiscoveryFails(i) ==
  /\ chats[i].pc = "discover" /\ chats'[i].pc # "discover"
  /\ chats'[i].via = "end"

\* C38: when no listing gives a usable model, each API version has been
\* asked once, the request goes on to its first attempt with the candidates
\* built from the configured models and the models cached before, stale or
\* none, every configured model among them unless the cap cuts it; the
\* cache and its timestamp are left as they were, the cache is not fresh, and
\* a request that arrives while the cache is not fresh asks for a listing.
C38_DiscoveryFailure ==
  [][ \A i \in Slots :
        /\ DiscoveryFails(i) =>
             /\ chats[i].lists = Len(GEMINI_API_VERSIONS)
             /\ chats'[i].pc = "generate" /\ chats'[i].status = 0
             /\ chats'[i].models = CandidateModels(cachedGeminiModels)
             /\ \/ Elements(configuredModels) \subseteq Elements(chats'[i].models)
                \/ Len(chats'[i].models) = MaxCandidates
             /\ chats'[i].attempts =
                  << <<chats'[i].models[1], GEMINI_API_VERSIONS[1]>> >>
             /\ cachedGeminiModels' = cachedGeminiModels
             /\ geminiModelsCachedAt' = geminiModelsCachedAt
             /\ ~CacheFresh(cachedGeminiModels', geminiModelsCachedAt', dateNow')
        /\ (/\ EntersDiscovery(i)
            /\ ~CacheFresh(cachedGeminiModels, geminiModelsCachedAt, dateNow))
             => chats'[i].pc = "discover" /\ chats'[i].lists = 1
    ]_vars

\* both listings of a request have failed while the cache held models older
\* than the TTL: the request is at its first attempt, the cached models
\* among its candidates, the cache and its stamp untouched
C38_Witness ==
  \E i \in Slots :
    /\ chats[i].pc = "generate" /\ chats[i].via = "end"
    /\ chats[i].lists = Len(GEMINI_API_VERSIONS)
    /\ Len(chats[i].attempts) = 1
    /\ cachedGeminiModels # <<>>
    /\ dateNow >= geminiModelsCachedAt + GEMINI_MODEL_CACHE_TTL_MS
    /\ chats[i].models = CandidateModels(cachedGeminiModels)
    /\ Len(chats[i].models) > Len(configuredModels)

\* callGemini of the request in slot i is running
InCallGemini(i) == chats[i].pc \in {"discover", "generate"}

\* callGemini of the request in slot i has ended: it returned a reply, which
\* the handler sent, or it threw, and the handler answered 503
CallGeminiEnded(i) ==
  /\ chats[i].pc = "done"
  /\ \/ chats[i].status = 200 /\ chats[i].raw # <<>>
        /\ chats[i].thrown = NoError
     \/ chats[i].status = 503 /\ chats[i].thrown # NoError

\* C39: every call of callGemini ends, with a reply returned or an error
\* thrown, once every external request it makes is answered; it makes at
\* most one listing request per API version and at most one generation
\* request per candidate model and API version, 2 and 20 at most.
C39_Termination ==
  /\ \A i \in Slots : InCallGemini(i) ~> CallGeminiEnded(i)
  /\ [](\A i \in Slots :
          /\ chats[i].lists <= Len(GEMINI_API_VERSIONS)
          /\ Len(chats[i].attempts)
               <= MaxCandidates * Len(GEMINI_API_VERSIONS)
          /\ Len(chats[i].attempts)
               <= Len(chats[i].models) * Len(GEMINI_API_VERSIONS))

\* callGemini has thrown after two listing requests and twenty generation
\* requests
C39_Witness ==
  \E i \in Slots :
    /\ CallGeminiEnded(i) /\ chats[i].status = 503
    /\ chats[i].lists = 2 /\ Len(chats[i].attempts) = 20

\* C40: whenever the connection handle db is set, mongoLastError is null and
\* both indexes of the notes collection have been created, also after a call
\* of connectMongo that failed at a createIndex.
C40_StatusConsistent ==
  db => /\ mongoLastError = ""
        /\ indexes = {NoteIndexes[1], NoteIndexes[2]}

====
